---- MODULE Spec2Model ----
(***************************************************************************)
(* Model of the shop API: the Lambda handler of lambdas/api/index.js, the  *)
(* shop.db object in S3 that its invocations share, the scoring job it     *)
(* invokes, and the order arithmetic, which the code does in IEEE-754      *)
(* doubles (JavaScript numbers); then the Place Order and Priority Queue   *)
(* pages that call the API, and the local dev server that stands in for it.*)
(***************************************************************************)
EXTENDS Integers, Sequences, FiniteSets, TLC

(***************************************************************************)
(* Natural numbers of arbitrary size: little-endian sequences of 15-bit    *)
(* limbs, so that every intermediate product stays below 2^31.             *)
(***************************************************************************)
Base == 32768
LimbBits == 15

Limb(a, i) == IF i <= Len(a) THEN a[i] ELSE 0

RECURSIVE BigNorm(_)
BigNorm(a) ==
  IF a = <<>> THEN <<>>
  ELSE IF a[Len(a)] = 0 THEN BigNorm(SubSeq(a, 1, Len(a) - 1)) ELSE a

RECURSIVE BigFromNat(_)
BigFromNat(n) == IF n = 0 THEN <<>> ELSE <<n % Base>> \o BigFromNat(n \div Base)

RECURSIVE BigToNat(_)
BigToNat(a) == IF a = <<>> THEN 0 ELSE a[1] + Base * BigToNat(Tail(a))

RECURSIVE BigAddFrom(_, _, _, _)
BigAddFrom(a, b, i, c) ==
  IF i > Len(a) /\ i > Len(b)
  THEN (IF c = 0 THEN <<>> ELSE <<c>>)
  ELSE LET t == Limb(a, i) + Limb(b, i) + c
       IN  <<t % Base>> \o BigAddFrom(a, b, i + 1, t \div Base)

BigAdd(a, b) == BigNorm(BigAddFrom(a, b, 1, 0))

\* a - b for a >= b
RECURSIVE BigSubFrom(_, _, _, _)
BigSubFrom(a, b, i, c) ==
  IF i > Len(a) THEN <<>>
  ELSE LET t == a[i] - Limb(b, i) - c
       IN  IF t < 0 THEN <<t + Base>> \o BigSubFrom(a, b, i + 1, 1)
           ELSE <<t>> \o BigSubFrom(a, b, i + 1, 0)

BigSub(a, b) == BigNorm(BigSubFrom(a, b, 1, 0))

\* a * d for 0 <= d < Base
RECURSIVE BigMulSmallFrom(_, _, _, _)
BigMulSmallFrom(a, d, i, c) ==
  IF i > Len(a) THEN (IF c = 0 THEN <<>> ELSE <<c>>)
  ELSE LET t == a[i] * d + c
       IN  <<t % Base>> \o BigMulSmallFrom(a, d, i + 1, t \div Base)

BigMulSmall(a, d) == BigNorm(BigMulSmallFrom(a, d, 1, 0))

RECURSIVE BigMul(_, _)
BigMul(a, b) ==
  IF b = <<>> \/ a = <<>> THEN <<>>
  ELSE BigAdd(BigMulSmall(a, b[1]),
              LET r == BigMul(a, Tail(b)) IN IF r = <<>> THEN <<>> ELSE <<0>> \o r)

\* -1, 0, 1 as a < b, a = b, a > b (both normalised)
RECURSIVE BigCmpFrom(_, _, _)
BigCmpFrom(a, b, i) ==
  IF i = 0 THEN 0
  ELSE IF a[i] < b[i] THEN -1
  ELSE IF a[i] > b[i] THEN 1
  ELSE BigCmpFrom(a, b, i - 1)

BigCmp(a, b) ==
  IF Len(a) < Len(b) THEN -1
  ELSE IF Len(a) > Len(b) THEN 1
  ELSE BigCmpFrom(a, b, Len(a))

RECURSIVE Zeros(_)
Zeros(n) == IF n = 0 THEN <<>> ELSE <<0>> \o Zeros(n - 1)

BigShl(a, k) ==
  IF a = <<>> THEN <<>>
  ELSE Zeros(k \div LimbBits) \o BigMulSmall(a, 2 ^ (k % LimbBits))

\* quotient and remainder of a by d, for 0 < d < Base
RECURSIVE BigDivSmallFrom(_, _, _, _)
BigDivSmallFrom(a, d, i, r) ==
  IF i = 0 THEN [q |-> <<>>, r |-> r]
  ELSE LET t    == r * Base + a[i]
           rest == BigDivSmallFrom(a, d, i - 1, t % d)
       IN  [q |-> rest.q \o <<t \div d>>, r |-> rest.r]

BigDivSmall(a, d) ==
  LET x == BigDivSmallFrom(a, d, Len(a), 0) IN [q |-> BigNorm(x.q), r |-> x.r]

BigShr(a, k) ==
  LET dropped == k \div LimbBits
  IN  IF dropped >= Len(a) THEN <<>>
      ELSE BigDivSmall(SubSeq(a, dropped + 1, Len(a)), 2 ^ (k % LimbBits)).q

RECURSIVE NatBitLen(_)
NatBitLen(n) == IF n = 0 THEN 0 ELSE 1 + NatBitLen(n \div 2)

BigBitLen(a) == IF a = <<>> THEN 0 ELSE LimbBits * (Len(a) - 1) + NatBitLen(a[Len(a)])

BigOdd(a) == a # <<>> /\ a[1] % 2 = 1

(***************************************************************************)
(* IEEE-754 binary64 values in the normal range: sign s, 53-bit            *)
(* significand m, exponent e, value (-1)^s * m * 2^e.  Zero is the record  *)
(* with the empty significand.  Every operation rounds the exact result   *)
(* to nearest, ties to even, as JavaScript's number arithmetic does.       *)
(***************************************************************************)
Precision == 53

FZero == [s |-> 0, m |-> <<>>, e |-> 0]

\* q, or q + 1 when the bits cut off round up: c compares them with half a unit
\* in the last place, and a tie goes to the even significand
RoundedUp(q, c, sticky) ==
  IF c > 0 \/ (c = 0 /\ (sticky \/ BigOdd(q))) THEN BigAdd(q, <<1>>) ELSE q

\* rounding up may carry into a 54th bit
FRoundCarry(s, q, e) ==
  IF BigBitLen(q) > Precision THEN [s |-> s, m |-> BigShr(q, 1), e |-> e + 1]
  ELSE [s |-> s, m |-> q, e |-> e]

\* m cut to its top 53 bits q = m >> sh, then rounded
FRoundCut(s, m, e, sticky, sh, q) ==
  FRoundCarry(s,
              RoundedUp(q, BigCmp(BigSub(m, BigShl(q, sh)), BigShl(<<1>>, sh - 1)), sticky),
              e + sh)

FRoundLen(s, m, e, sticky, len) ==
  IF len <= Precision
  THEN [s |-> s, m |-> BigShl(m, Precision - len), e |-> e - (Precision - len)]
  ELSE FRoundCut(s, m, e, sticky, len - Precision, BigShr(m, len - Precision))

\* the double nearest to (-1)^s * m * 2^e (+ something below the last bit of m
\* when sticky)
FRound(s, m, e, sticky) ==
  IF m = <<>> THEN FZero ELSE FRoundLen(s, m, e, sticky, BigBitLen(m))

FromInt(n) ==
  IF n < 0 THEN FRound(1, BigFromNat(-n), 0, FALSE)
  ELSE FRound(0, BigFromNat(n), 0, FALSE)

GuardBits == 60

FromQuotient(s, qr) == FRound(s, qr.q, -GuardBits, qr.r # 0)

\* the double nearest to n / d, 0 < d < Base: the value of a decimal literal
\* or JSON number n/d, and of the division of the integer n by d
FromRatio(n, d) ==
  FromQuotient(IF n < 0 THEN 1 ELSE 0,
               BigDivSmall(BigShl(BigFromNat(IF n < 0 THEN -n ELSE n), GuardBits), d))

FNeg(a) == IF a.m = <<>> THEN a ELSE [a EXCEPT !.s = 1 - a.s]

FMul(a, b) ==
  IF a.m = <<>> \/ b.m = <<>> THEN FZero
  ELSE FRound((a.s + b.s) % 2, BigMul(a.m, b.m), a.e + b.e, FALSE)

\* significands ma, mb on the same exponent e, signs differing: c compares them
FSubAligned(sa, ma, sb, mb, e, c) ==
  IF c = 0 THEN FZero
  ELSE FRound(IF c > 0 THEN sa ELSE sb,
              IF c > 0 THEN BigSub(ma, mb) ELSE BigSub(mb, ma), e, FALSE)

FAddAligned(sa, ma, sb, mb, e) ==
  IF sa = sb THEN FRound(sa, BigAdd(ma, mb), e, FALSE)
  ELSE FSubAligned(sa, ma, sb, mb, e, BigCmp(ma, mb))

FAddAt(a, b, e) == FAddAligned(a.s, BigShl(a.m, a.e - e), b.s, BigShl(b.m, b.e - e), e)

FAdd(a, b) ==
  IF a.m = <<>> THEN b
  ELSE IF b.m = <<>> THEN a
  ELSE FAddAt(a, b, IF a.e < b.e THEN a.e ELSE b.e)

IsPositive(d) == d.m # <<>> /\ d.s = 0

\* a > b
FGt(a, b) == IsPositive(FAdd(a, FNeg(b)))

\* ceil(t / 2^k), given q = floor(t / 2^k)
CeilShr(t, k, q) == IF BigShl(q, k) = t THEN BigToNat(q) ELSE BigToNat(q) + 1

CeilOf(t, k) == CeilShr(t, k, BigShr(t, k))

\* floor(m / 2^k + 1/2) and its mirror image for a negative number, half = 2^(k-1)
RoundHalf(s, m, k, half) ==
  IF s = 0 THEN BigToNat(BigShr(BigAdd(m, half), k))
  ELSE IF BigCmp(m, half) < 0 THEN 0
  ELSE -CeilOf(BigSub(m, half), k)

\* Math.round: the integer floor(x + 1/2), computed exactly
MathRound(x) ==
  IF x.m = <<>> THEN 0
  ELSE IF x.e >= 0 THEN (IF x.s = 0 THEN 1 ELSE -1) * BigToNat(BigShl(x.m, x.e))
  ELSE RoundHalf(x.s, x.m, -x.e, BigShl(<<1>>, -x.e - 1))

(***************************************************************************)
(* The relational store: the tables of shop.db, each a sequence of rows in *)
(* rowid order.  Money columns hold doubles.                               *)
(***************************************************************************)
\* a JavaScript value that may be undefined: <<v>>, or <<>> for undefined
Some(v) == <<v>>
Undefined == <<>>

Cents(c) == FromRatio(c, 100)

SeedCustomers ==
  << [customer_id |-> 1, full_name |-> <<"B", "e", "a">>, is_active |-> 1],
     [customer_id |-> 2, full_name |-> <<"A", "l">>, is_active |-> 1],
     [customer_id |-> 3, full_name |-> <<"C", "y">>, is_active |-> 0] >>

SeedProducts ==
  << [product_id |-> 7, product_name |-> <<"W", "i">>, price |-> Cents(3000), is_active |-> 1],
     [product_id |-> 8, product_name |-> <<"G", "a">>, price |-> Cents(3332), is_active |-> 1],
     [product_id |-> 9, product_name |-> <<"B", "o">>, price |-> Cents(4), is_active |-> 0] >>

SeedOrders ==
  << [order_id |-> 1, customer_id |-> 2, order_datetime |-> 0,
      payment_method |-> "card", device_type |-> "desktop", ip_country |-> "US",
      promo_used |-> 0, order_subtotal |-> Cents(3000), shipping_fee |-> Cents(999),
      tax_amount |-> Cents(240), order_total |-> Cents(4239),
      risk_score |-> 0, is_fraud |-> 0] >>

SeedItems ==
  << [order_id |-> 1, product_id |-> 7, quantity |-> 1, unit_price |-> Cents(3000),
      line_total |-> Cents(3000)] >>

SeedTables ==
  [customers |-> SeedCustomers, products |-> SeedProducts, orders |-> SeedOrders,
   order_items |-> SeedItems,
   order_predictions |-> [exists |-> FALSE, rows |-> <<>>]]

EmptyTables ==
  [customers |-> <<>>, products |-> <<>>, orders |-> <<>>, order_items |-> <<>>,
   order_predictions |-> [exists |-> FALSE, rows |-> <<>>]]

Range(s) == {s[i] : i \in DOMAIN s}

MaxOf(S) == IF S = {} THEN 0 ELSE CHOOSE y \in S : \A z \in S : z <= y

\* a rowid that is the largest one in use
LastRowid(rows) == MaxOf({rows[i].order_id : i \in DOMAIN rows})

\* the rowid SQLite gives the next row of an INTEGER PRIMARY KEY table
NextRowid(rows) == MaxOf({rows[i].order_id : i \in DOMAIN rows}) + 1

(***************************************************************************)
(* sql.js: a Database is an in-memory copy of a file image; export() is    *)
(* the image of its committed tables.                                      *)
(***************************************************************************)
SqliteFormat == "SQLite format 3"

\* the leaf cells of one table's b-tree, in rowid order
Cells(name, rows) ==
  [k \in DOMAIN rows |-> [table |-> name, rowid |-> k, row |-> rows[k]]]

\* the tables sqlite_master lists
Schema(tables) ==
  <<"customers", "products", "orders", "order_items">>
    \o (IF tables.order_predictions.exists THEN <<"order_predictions">> ELSE <<>>)

\* db.export(), the bytes uploadDbToS3 sends: the header, the schema and the
\* cells of every table
Export(db) ==
  [format |-> SqliteFormat,
   schema |-> Schema(db.tables),
   cells  |-> Cells("customers", db.tables.customers)
                \o Cells("products", db.tables.products)
                \o Cells("orders", db.tables.orders)
                \o Cells("order_items", db.tables.order_items)
                \o Cells("order_predictions", db.tables.order_predictions.rows)]

\* shop.db as the deployment puts it in the bucket, an object of zero bytes,
\* and an object whose bytes are no SQLite file
SeedImage == Export([tables |-> SeedTables])
EmptyFile == [format |-> "", schema |-> <<>>, cells |-> <<>>]
NotADatabase == [format |-> "not a database", schema |-> <<>>, cells |-> <<>>]

\* a reader that returns a table's rows last cell first
RowsOfReversed(buf, name) ==
  LET In(c) == c.table = name
      found == SelectSeq(buf.cells, In)
  IN  [k \in DOMAIN found |-> found[Len(found) + 1 - k].row]

\* the rows of a table in a file image
RowsOf(buf, name) ==
  LET In(c) == c.table = name
      found == SelectSeq(buf.cells, In)
  IN  [k \in DOMAIN found |-> found[k].row]

HasTable(buf, name) == \E k \in DOMAIN buf.schema : buf.schema[k] = name

\* the tables a file image holds
Tables(buf) ==
  [customers |-> RowsOf(buf, "customers"), products |-> RowsOf(buf, "products"),
   orders |-> RowsOf(buf, "orders"), order_items |-> RowsOf(buf, "order_items"),
   order_predictions |-> [exists |-> HasTable(buf, "order_predictions"),
                          rows |-> RowsOf(buf, "order_predictions")]]

\* new Sql.Database(buf): the constructor copies the bytes and opens them
\* without reading them; zero bytes are a database with no tables
NoTx == [active |-> FALSE, saved |-> EmptyTables]

Database(buf) ==
  [format |-> buf.format, tables |-> Tables(buf), tx |-> NoTx, open |-> TRUE,
   lastInsertRowid |-> 0]

NoDb ==
  [format |-> "none", tables |-> EmptyTables, tx |-> NoTx, open |-> FALSE,
   lastInsertRowid |-> 0]

\* a statement on the shop tables throws: "file is not a database", or on a
\* database of zero bytes "no such table"
StatementThrows(db) == db.format # SqliteFormat

Close(db) == [db EXCEPT !.open = FALSE]

\* db.run("BEGIN"), db.run("COMMIT"), db.run("ROLLBACK")
Begin(db) == [db EXCEPT !.tx = [active |-> TRUE, saved |-> db.tables]]
Commit(db) == [db EXCEPT !.tx = NoTx]
Rollback(db) == [db EXCEPT !.tables = db.tx.saved, !.tx = NoTx]

\* Statement.bind throws on a value that is neither string, number, boolean
\* nor null: a missing JSON key reads as undefined
BindThrows(params) == \E i \in DOMAIN params : params[i] = Undefined


(***************************************************************************)
(* Text: a string the code compares or parses is a sequence of characters. *)
(* SQLite's BINARY collation and parseInt read it character by character.  *)
(***************************************************************************)
Alphabet == <<" ", "-", "0", "1", "2", "3", "4", "5", "6", "7", "8", "9",
              "A", "B", "C", "G", "W", "a", "b", "c", "e", "i", "l", "o", "x", "y">>

Code(ch) == CHOOSE i \in DOMAIN Alphabet : Alphabet[i] = ch

RECURSIVE TextLess(_, _)
TextLess(a, b) ==
  IF b = <<>> THEN FALSE
  ELSE IF a = <<>> THEN TRUE
  ELSE IF Code(Head(a)) < Code(Head(b)) THEN TRUE
  ELSE IF Code(Head(a)) > Code(Head(b)) THEN FALSE
  ELSE TextLess(Tail(a), Tail(b))

NaN == Undefined
Digits == <<"0", "1", "2", "3", "4", "5", "6", "7", "8", "9">>
IsDigit(ch) == \E i \in DOMAIN Digits : Digits[i] = ch
DigitVal(ch) == (CHOOSE i \in DOMAIN Digits : Digits[i] = ch) - 1

RECURSIVE ParseDigits(_, _)
ParseDigits(s, acc) ==
  IF s = <<>> \/ ~IsDigit(Head(s)) THEN acc
  ELSE ParseDigits(Tail(s), 10 * acc + DigitVal(Head(s)))

RECURSIVE SkipSpace(_)
SkipSpace(s) == IF s # <<>> /\ Head(s) = " " THEN SkipSpace(Tail(s)) ELSE s

\* parseInt(s, 10)
parseInt(s) ==
  LET t   == SkipSpace(s)
      neg == t # <<>> /\ Head(t) = "-"
      u   == IF neg THEN Tail(t) ELSE t
  IN  IF u = <<>> \/ ~IsDigit(Head(u)) THEN NaN
      ELSE IF neg THEN Some(-ParseDigits(u, 0)) ELSE Some(ParseDigits(u, 0))

(***************************************************************************)
(* Queries                                                                 *)
(***************************************************************************)
ByFullName == "full_name"
ByProductName == "product_name"
ByDatetimeDesc == "order_datetime DESC"
ByProbabilityDesc == "late_delivery_probability DESC"

\* row a sorts strictly before row b under ORDER BY key
Before(key, a, b) ==
  CASE key = ByFullName -> TextLess(a.full_name, b.full_name)
    [] key = ByProductName -> TextLess(a.product_name, b.product_name)
    [] key = ByDatetimeDesc -> a.order_datetime > b.order_datetime
    [] key = ByProbabilityDesc ->
         FGt(a.late_delivery_probability, b.late_delivery_probability)

\* ORDER BY: a row's place is one more than the number of rows that sort
\* before it; rows that compare equal stay in rowid order
Place(rows, key, i) ==
  1 + Cardinality({j \in DOMAIN rows :
                     \/ Before(key, rows[j], rows[i])
                     \/ j < i /\ ~Before(key, rows[i], rows[j])})

SortRows(rows, key) ==
  LET place == [i \in DOMAIN rows |-> Place(rows, key, i)]
  IN  [k \in DOMAIN rows |-> rows[CHOOSE i \in DOMAIN rows : place[i] = k]]

\* a WHERE clause that lets every row through
IsActiveOrNot(r) == r.is_active \in {0, 1}

IsActive(r) == r.is_active = 1

CustomerColumns(rows) ==
  [i \in DOMAIN rows |->
     [customer_id |-> rows[i].customer_id, full_name |-> rows[i].full_name]]

getCustomers(db) ==
  CustomerColumns(SortRows(SelectSeq(db.tables.customers, IsActive), ByFullName))

ProductColumns(rows) ==
  [i \in DOMAIN rows |->
     [product_id |-> rows[i].product_id, product_name |-> rows[i].product_name,
      price |-> rows[i].price]]

getProducts(db) ==
  ProductColumns(SortRows(SelectSeq(db.tables.products, IsActive), ByProductName))

OrderColumns(rows) ==
  [i \in DOMAIN rows |->
     [order_id |-> rows[i].order_id, order_datetime |-> rows[i].order_datetime,
      order_total |-> rows[i].order_total, order_subtotal |-> rows[i].order_subtotal]]

\* the query without its WHERE clause
getOrdersUnbound(db, customerId) ==
  OrderColumns(SortRows(db.tables.orders, ByDatetimeDesc))

getOrders(db, customerId) ==
  LET Mine(o) == customerId # NaN /\ o.customer_id = customerId[1]
  IN  OrderColumns(SortRows(SelectSeq(db.tables.orders, Mine), ByDatetimeDesc))

QueueLimit == 50

\* a query that goes straight to its SELECT
EnsurePredictionsSkipped(db) == db

\* CREATE TABLE IF NOT EXISTS order_predictions
EnsurePredictions(db) ==
  IF db.format = NotADatabase.format THEN db
  ELSE [db EXCEPT !.tables.order_predictions.exists = TRUE]

Joined(tables) ==
  LET P == tables.order_predictions.rows
      O == tables.orders
      C == tables.customers
      HasOrder(p) == \E i \in DOMAIN O : O[i].order_id = p.order_id
      OrderOf(p) == O[CHOOSE i \in DOMAIN O : O[i].order_id = p.order_id]
      HasCustomer(p) == HasOrder(p) /\ \E j \in DOMAIN C : C[j].customer_id = OrderOf(p).customer_id
      CustomerOf(p) == C[CHOOSE j \in DOMAIN C : C[j].customer_id = OrderOf(p).customer_id]
      rows == SelectSeq(P, HasCustomer)
  IN  [i \in DOMAIN rows |->
         [order_id |-> rows[i].order_id,
          late_delivery_probability |-> rows[i].late_delivery_probability,
          predicted_late_delivery |-> rows[i].predicted_late_delivery,
          prediction_timestamp |-> rows[i].prediction_timestamp,
          customer_id |-> OrderOf(rows[i]).customer_id,
          order_datetime |-> OrderOf(rows[i]).order_datetime,
          order_total |-> OrderOf(rows[i]).order_total,
          full_name |-> CustomerOf(rows[i]).full_name]]

\* a LIMIT that lets one row more through
LimitInclusive(rows, n) == SubSeq(rows, 1, IF Len(rows) < n + 1 THEN Len(rows) ELSE n + 1)

Limit(rows, n) == SubSeq(rows, 1, IF Len(rows) < n THEN Len(rows) ELSE n)

QueueRows(db) == Limit(SortRows(Joined(db.tables), ByProbabilityDesc), QueueLimit)

\* the handle after the query, the rows returned, and whether a statement threw
\* (the SELECT throws on a handle that has no order_predictions table)
getPriorityQueue(db) ==
  [db |-> EnsurePredictions(db), rows |-> QueueRows(EnsurePredictions(db)),
   threw |-> StatementThrows(db)
             \/ ~EnsurePredictions(db).tables.order_predictions.exists]

(***************************************************************************)
(* postOrder                                                               *)
(***************************************************************************)
ShippingThreshold == FromInt(100)
ShippingFlat == Cents(999)
TaxRate == Cents(8)
Hundred == FromInt(100)

LineTotal(it) == FMul(FromInt(it.quantity), it.unitPrice)

\* let orderSubtotal = 0; for (const it of items) orderSubtotal += ...
RECURSIVE SumLines(_, _, _)
SumLines(items, i, acc) ==
  IF i > Len(items) THEN acc
  ELSE SumLines(items, i + 1, FAdd(acc, LineTotal(items[i])))

OrderSubtotal(items) == SumLines(items, 1, FZero)

\* a fee that is charged whatever the subtotal
ShippingFeeAlways(orderSubtotal) == ShippingFlat

ShippingFee(orderSubtotal) ==
  IF FGt(orderSubtotal, ShippingThreshold) THEN FZero ELSE ShippingFlat

\* Math.round(x * 100) / 100
Round2(x) == FromRatio(MathRound(FMul(x, Hundred)), 100)

TaxAmount(orderSubtotal) == Round2(FMul(orderSubtotal, TaxRate))

OrderTotal(orderSubtotal, shippingFee, taxAmount) ==
  Round2(FAdd(FAdd(orderSubtotal, shippingFee), taxAmount))

Amounts(orderSubtotal, shippingFee, taxAmount) ==
  [order_subtotal |-> orderSubtotal, shipping_fee |-> shippingFee,
   tax_amount |-> taxAmount,
   order_total |-> OrderTotal(orderSubtotal, shippingFee, taxAmount)]

AmountsOf(orderSubtotal) ==
  Amounts(orderSubtotal, ShippingFee(orderSubtotal), TaxAmount(orderSubtotal))

\* the amounts postOrder computes before it opens the transaction
OrderAmounts(items) == AmountsOf(OrderSubtotal(items))

OrderRow(orderId, customerId, orderDatetime, a) ==
  [order_id |-> orderId, customer_id |-> customerId,
   order_datetime |-> orderDatetime, payment_method |-> "card",
   device_type |-> "desktop", ip_country |-> "US", promo_used |-> 0,
   order_subtotal |-> a.order_subtotal, shipping_fee |-> a.shipping_fee,
   tax_amount |-> a.tax_amount, order_total |-> a.order_total,
   risk_score |-> 0, is_fraud |-> 0]

\* an item row whose line_total is the unit price
ItemRowOfOne(orderId, it) ==
  [order_id |-> orderId, product_id |-> it.productId[1], quantity |-> it.quantity,
   unit_price |-> it.unitPrice, line_total |-> it.unitPrice]

ItemRow(orderId, it) ==
  [order_id |-> orderId, product_id |-> it.productId[1], quantity |-> it.quantity,
   unit_price |-> it.unitPrice, line_total |-> LineTotal(it)]

\* PRAGMA foreign_keys: off in a sql.js Database unless the code turns it on,
\* and the handler never does
ForeignKeys == FALSE

HasProduct(tables, productId) ==
  \E i \in DOMAIN tables.products : tables.products[i].product_id = productId

\* db.run(INSERT INTO order_items ...) throws
InsertItemThrows(db, orderId, it) ==
  \/ BindThrows(<<Some(orderId), it.productId, Some(it.quantity), Some(it.unitPrice)>>)
  \/ ForeignKeys /\ ~HasProduct(db.tables, it.productId[1])

\* for (const it of items) db.run(INSERT INTO order_items ...)
RECURSIVE InsertItems(_, _, _, _)
InsertItems(db, orderId, items, i) ==
  IF i > Len(items) THEN [db |-> db, threw |-> FALSE]
  ELSE IF InsertItemThrows(db, orderId, items[i]) THEN [db |-> db, threw |-> TRUE]
  ELSE InsertItems([db EXCEPT !.tables.order_items = Append(@, ItemRow(orderId, items[i]))],
                   orderId, items, i + 1)

\* an insert that leaves the new order as the only row of the table
InsertOrderAlone(db, customerId, orderDatetime, a) ==
  [db EXCEPT !.tables.orders =
     <<OrderRow(NextRowid(db.tables.orders), customerId, orderDatetime, a)>>,
   !.lastInsertRowid = NextRowid(db.tables.orders)]

\* db.run(INSERT INTO orders ...): the row takes the next rowid
InsertOrder(db, customerId, orderDatetime, a) ==
  [db EXCEPT !.tables.orders =
     Append(@, OrderRow(NextRowid(db.tables.orders), customerId, orderDatetime, a)),
   !.lastInsertRowid = NextRowid(db.tables.orders)]

\* SELECT last_insert_rowid()
LastInsertRowid(db) == db.lastInsertRowid

\* a catch block that commits what the transaction had inserted so far
OnInsertFailureCommits(db) == Commit(db)

\* the catch block of postOrder
OnInsertFailure(db) == Rollback(db)

\* a postOrder that swallows the exception and commits
SettleSwallows(ins, orderId) ==
  [db |-> Commit(ins.db), threw |-> FALSE, orderId |-> orderId]

Settle(ins, orderId) ==
  IF ins.threw
  THEN [db |-> OnInsertFailure(ins.db), threw |-> TRUE, orderId |-> 0]
  ELSE [db |-> Commit(ins.db), threw |-> FALSE, orderId |-> orderId]

InTransaction(ordered, items) ==
  Settle(InsertItems(ordered, LastInsertRowid(ordered), items, 1), LastInsertRowid(ordered))

\* the handle after postOrder, whether it threw, and the id it returned
postOrder(db, customerId, items, orderDatetime) ==
  IF StatementThrows(db)
  THEN [db |-> OnInsertFailure(Begin(db)), threw |-> TRUE, orderId |-> 0]
  ELSE InTransaction(InsertOrder(Begin(db), customerId, orderDatetime, OrderAmounts(items)), items)


(***************************************************************************)
(* Requests                                                                *)
(***************************************************************************)
Item(productId, quantity, cents) ==
  [productId |-> productId, quantity |-> quantity, unitPrice |-> Cents(cents)]

Array(elems) == [type |-> "array", elems |-> elems]
NoItems == [type |-> "undefined", elems |-> <<>>]
NotArray == [type |-> "string", elems |-> <<>>]

\* a request body that is the JSON text of {customerId, items}
Order(customerId, items) == [kind |-> "json", customerId |-> customerId, items |-> items]
\* a request body that is not JSON text, and a request without a body
Unparseable == [kind |-> "text", customerId |-> Undefined, items |-> NoItems]
NoBody == [kind |-> "none", customerId |-> Undefined, items |-> NoItems]

\* bodies sent to POST /orders
Bodies ==
  << Order(Some(1), Array(<<Item(Some(7), 2, 3000)>>)),
     Order(Some(2), Array(<<Item(Some(9), 1, 4), Item(Some(8), 3, 3332)>>)),
     Order(Some(1), Array(<<Item(Some(7), 4, 3000)>>)),
     Order(Some(1), Array(<<>>)),
     Order(Undefined, Array(<<Item(Some(7), 2, 3000)>>)),
     Order(Some(1), NoItems),
     Order(Some(1), NotArray),
     Order(Some(1), Array(<<Item(Some(7), 1, 3000), Item(Some(99), 1, 500)>>)),
     Order(Some(2), Array(<<Item(Some(7), 1, 3000), Item(Undefined, 1, 500)>>)),
     Order(Some(1), Array(<<Item(Some(7), 0, 3000)>>)),
     Order(Some(1), Array(<<Item(Some(8), -1, 3332)>>)),
     Order(Some(1), Array(<<Item(Some(7), 1, 0)>>)),
     Order(Some(5), Array(<<Item(Some(8), 1, 3332)>>)),
     Unparseable,
     NoBody >>

\* an event: method, path, the customerId query parameter (<<>> when absent),
\* body, and the Origin header (none unless From adds one)
Req(method, path, customerId, body) ==
  [method |-> method, path |-> path, customerId |-> customerId, body |-> body,
   origin |-> Undefined]

From(event, origin) == [event EXCEPT !.origin = origin]

Requests ==
  << Req("OPTIONS", "/orders", <<>>, NoBody),
     Req("GET", "/customers", <<>>, NoBody),
     Req("GET", "/products", <<>>, NoBody),
     Req("GET", "/orders", <<"2">>, NoBody),
     Req("GET", "/orders", <<"a", "b", "c">>, NoBody),
     Req("GET", "/orders", <<>>, NoBody),
     Req("GET", "/priority-queue", <<>>, NoBody),
     Req("POST", "/run-scoring", <<>>, NoBody),
     Req("PUT", "/orders", <<>>, NoBody),
     Req("POST", "/customers", <<>>, NoBody) >>
  \o [k \in DOMAIN Bodies |-> Req("POST", "/orders", <<>>, Bodies[k])]

NoRequest == Req("", "", <<>>, NoBody)
NoHeaders == [h \in {} |-> ""]
\* a response: json tells whether the body is a string of JSON text
NoResponse == [statusCode |-> 0, headers |-> NoHeaders, body |-> "", json |-> FALSE]

corsHeaders(origin) ==
  LET allowed == IF origin = Undefined THEN "*" ELSE origin[1]
  IN  ("Access-Control-Allow-Origin" :> allowed)
        @@ ("Access-Control-Allow-Headers" :> "Content-Type")
        @@ ("Access-Control-Allow-Methods" :> "GET, POST, OPTIONS")

MaxReq == 2
MaxTime == 1
Reqs == 1..MaxReq

VARIABLES
  env,      \* process.env: is DATA_BUCKET set, is PIPELINE_LAMBDA_ARN set
  durable,  \* the shop.db object in the bucket
  version,  \* how many times the object has been written
  now,      \* the clock, in seconds
  inv,      \* the invocations of the handler, one per request
  page,     \* the Place Order page of one browser tab
  queue,    \* the Priority Queue page of one browser tab
  dev       \* the local dev API server and its data/shop.db file

vars == <<env, durable, version, now, inv, page, queue, dev>>

NoBuf == [format |-> "none", schema |-> <<>>, cells |-> <<>>]

\* what InvokeCommand sends to the job
NoPayload == [mode |-> ""]
InvokePayload == [mode |-> "inference_only"]

IdleInvocation ==
  [pc |-> "idle", event |-> NoRequest, buf |-> NoBuf, db |-> NoDb, jobdb |-> NoDb,
   response |-> NoResponse, orderId |-> 0, threw |-> FALSE, committed |-> FALSE,
   gets |-> 0, puts |-> 0, invokes |-> 0, closes |-> 0, readVersion |-> 0,
   wroteVersion |-> 0, job |-> "none", payload |-> NoPayload, responses |-> 0,
   jobReadVersion |-> 0, jobWroteVersion |-> 0]

(***************************************************************************)
(* The browser pages and the dev server take no part in the runs of the    *)
(* handler on its own: the pages are closed and the server is down.        *)
(***************************************************************************)
\* orders/new/page.tsx as its component is created: no products, an empty
\* cart, loading, not submitting; fetches holds the requests it awaits
NewOrderPage(customer) ==
  [open |-> TRUE, customer |-> customer, products |-> <<>>, lineItems |-> <<>>,
   loading |-> TRUE, submitting |-> FALSE, fetches |-> <<>>, alerted |-> FALSE,
   pushed |-> FALSE]

PlaceOrderClosed == [NewOrderPage(Undefined) EXCEPT !.open = FALSE]

\* priority-queue/page.tsx as its component is created
\* priority-queue/page.tsx as its component is created.  Beside the component's
\* state: the requests it awaits, how many scoring requests it has sent and how
\* many of them succeeded, after how many successes the fetch was issued whose
\* rows are displayed, and whether a request of the page has failed
PriorityQueuePage ==
  [open |-> TRUE, rows |-> <<>>, loading |-> TRUE, scoring |-> FALSE,
   fetches |-> <<>>, alerted |-> FALSE, sent |-> 0, completed |-> 0,
   shownAfter |-> 0, failed |-> FALSE]

QueueClosed == [PriorityQueuePage EXCEPT !.open = FALSE]

DevDown == [up |-> FALSE]

Offline == page = PlaceOrderClosed /\ queue = QueueClosed /\ dev = DevDown

Init ==
  /\ Offline
  /\ env \in [BUCKET : BOOLEAN, PIPELINE_LAMBDA_ARN : BOOLEAN]
  /\ durable \in {SeedImage, EmptyFile, NotADatabase}
  /\ version = 0
  /\ now = 0
  /\ inv = [r \in Reqs |-> IdleInvocation]

Reply(i, statusCode, headers, body, json) ==
  [i EXCEPT !.pc = "done",
            !.response = [statusCode |-> statusCode, headers |-> headers,
                          body |-> body, json |-> json],
            !.responses = @ + 1]

\* a response whose body is JSON.stringify of a value
Respond(i, statusCode, body) ==
  Reply(i, statusCode,
        ("Content-Type" :> "application/json") @@ corsHeaders(i.event.origin),
        body, TRUE)

\* the response to OPTIONS
Preflight(i) ==
  Reply(i, 204, corsHeaders(i.event.origin) @@ ("Content-Length" :> "0"), "", FALSE)

\* the final response when no route has assigned result: JSON.stringify of
\* undefined is undefined, not a string
RespondUndefined(i) ==
  Reply(i, 200,
        ("Content-Type" :> "application/json") @@ corsHeaders(i.event.origin),
        Undefined, FALSE)

\* the catch block of the handler
Caught(i, message) == Respond(i, 500, [error |-> message, stderr |-> Undefined])

Closed(i) == [i EXCEPT !.db = Close(@), !.closes = @ + 1]


(***************************************************************************)
(* The handler.  One invocation runs from its event to its response; it    *)
(* gives way to other invocations where it awaits S3 or the scoring job.   *)
(***************************************************************************)
\* the event arrives: the handler up to its first await
Accepted(idle, event) ==
  LET i == [idle EXCEPT !.event = event]
  IN  IF i.event.method = "OPTIONS" THEN Preflight(i)
      ELSE IF ~env.BUCKET
        THEN Respond(i, 500, [error |-> "DATA_BUCKET not configured"])
      ELSE [i EXCEPT !.pc = "load"]

Invoke(r, event) ==
  /\ inv[r].pc = "idle"
  /\ inv' = [inv EXCEPT ![r] = Accepted(inv[r], event)]

Receive(r, event) ==
  /\ Invoke(r, event)
  /\ UNCHANGED <<page, queue, dev, env, durable, version, now>>

Arrive(r) == \E k \in DOMAIN Requests : Receive(r, Requests[k])

\* a load that asks for the object once more when GetObject fails
loadDbFromS3Retries(r) ==
  /\ inv[r].pc = "load"
  /\ \E ok \in BOOLEAN :
       LET i == [inv[r] EXCEPT !.gets = @ + 1]
       IN  inv' = [inv EXCEPT ![r] =
             IF ok
             THEN [i EXCEPT !.pc = "route", !.buf = durable, !.db = Database(durable),
                            !.readVersion = version]
             ELSE IF i.gets < 2 THEN i
             ELSE Caught(i, "GetObject failed")]
  /\ UNCHANGED <<page, queue, dev, env, durable, version, now>>

\* a load that goes on with a new, empty database when GetObject fails
loadDbFromS3FailsOpen(r) ==
  /\ inv[r].pc = "load"
  /\ \E ok \in BOOLEAN :
       LET i == [inv[r] EXCEPT !.gets = @ + 1]
       IN  inv' = [inv EXCEPT ![r] =
             IF ok
             THEN [i EXCEPT !.pc = "route", !.buf = durable, !.db = Database(durable),
                            !.readVersion = version]
             ELSE [i EXCEPT !.pc = "route", !.db = Database(NoBuf)]]
  /\ UNCHANGED <<page, queue, dev, env, durable, version, now>>

\* a load that gets the object as it was deployed, whatever has been stored since
loadDbFromS3Stale(r) ==
  /\ inv[r].pc = "load"
  /\ \E ok \in BOOLEAN :
       LET i == [inv[r] EXCEPT !.gets = @ + 1]
           first == IF durable.format = SqliteFormat THEN SeedImage ELSE durable
       IN  inv' = [inv EXCEPT ![r] =
             IF ok
             THEN [i EXCEPT !.pc = "route", !.buf = first, !.db = Database(first),
                            !.readVersion = version]
             ELSE Caught(i, "GetObject failed")]
  /\ UNCHANGED <<page, queue, dev, env, durable, version, now>>

\* loadDbFromS3 and new Sql.Database(buf); GetObject may fail
loadDbFromS3(r) ==
  /\ inv[r].pc = "load"
  /\ \E ok \in BOOLEAN :
       LET i == [inv[r] EXCEPT !.gets = @ + 1]
       IN  inv' = [inv EXCEPT ![r] =
             IF ok
             THEN [i EXCEPT !.pc = "route", !.buf = durable, !.db = Database(durable),
                            !.readVersion = version]
             ELSE Caught(i, "GetObject failed")]
  /\ UNCHANGED <<page, queue, dev, env, durable, version, now>>

\* JSON.parse(event.body || "{}") throws
JsonParseThrows(body) == body.kind = "text"

Falsy(customerId) == customerId = Undefined \/ customerId[1] = 0

\* the validation without its items.length test
InvalidOrderBodyAnyLength(body) ==
  \/ Falsy(body.customerId)
  \/ body.items.type = "undefined"
  \/ body.items.type # "array"

\* !customerId || !items || !Array.isArray(items) || items.length === 0
InvalidOrderBody(body) ==
  \/ Falsy(body.customerId)
  \/ body.items.type = "undefined"
  \/ body.items.type # "array"
  \/ Len(body.items.elems) = 0

\* after postOrder: its exception goes to the catch block, its id to the upload
Posted(i, res) ==
  IF res.threw
  THEN Caught([i EXCEPT !.db = res.db, !.threw = TRUE], "insert failed")
  ELSE [i EXCEPT !.db = res.db, !.orderId = res.orderId, !.committed = TRUE,
                 !.pc = "upload"]

PostOrders(i, t) ==
  IF JsonParseThrows(i.event.body) THEN Caught(i, "Unexpected token")
  ELSE IF InvalidOrderBody(i.event.body)
    THEN Respond(Closed(i), 400, [error |-> "customerId and items (array) required"])
  ELSE Posted(i, postOrder(i.db, i.event.body.customerId[1], i.event.body.items.elems, t))

GetOrders(i) ==
  IF i.event.customerId = <<>>
  THEN Respond(Closed(i), 400, [error |-> "customerId required"])
  ELSE IF StatementThrows(i.db) THEN Caught(i, "no such table")
  ELSE Respond(Closed(i), 200, getOrders(i.db, parseInt(i.event.customerId)))

\* a priority-queue route that stores the handle it has just changed
PriorityQueuePersists(i, q) == [i EXCEPT !.db = q.db, !.pc = "upload"]

PriorityQueue(i, q) ==
  IF q.threw THEN Caught([i EXCEPT !.db = q.db], "no such table")
  ELSE Respond(Closed([i EXCEPT !.db = q.db]), 200, q.rows)

\* the routes of the handler, from the open handle to the next await or the
\* response; t is the time new Date() reads
Dispatch(i, t) ==
  LET method == i.event.method
      path   == i.event.path
  IN  IF path = "/customers" /\ method = "GET"
        THEN IF StatementThrows(i.db) THEN Caught(i, "no such table")
             ELSE Respond(Closed(i), 200, getCustomers(i.db))
      ELSE IF path = "/products" /\ method = "GET"
        THEN IF StatementThrows(i.db) THEN Caught(i, "no such table")
             ELSE Respond(Closed(i), 200, getProducts(i.db))
      ELSE IF path = "/orders"
        THEN IF method = "GET" THEN GetOrders(i)
             ELSE IF method = "POST" THEN PostOrders(i, t)
             ELSE RespondUndefined(Closed(i))
      ELSE IF path = "/priority-queue" /\ method = "GET"
        THEN PriorityQueue(i, getPriorityQueue(i.db))
      ELSE IF path = "/run-scoring" /\ method = "POST"
        THEN [Closed(i) EXCEPT !.pc = "invoke"]
      ELSE Respond(Closed(i), 404, [error |-> "Not found"])

Route(r) ==
  /\ inv[r].pc = "route"
  /\ inv' = [inv EXCEPT ![r] = Dispatch(inv[r], now)]
  /\ UNCHANGED <<page, queue, dev, env, durable, version, now>>

\* an upload that adds the rows the handle gained to the object as it is now
uploadDbToS3Merged(r) ==
  /\ inv[r].pc = "upload"
  /\ \E ok \in BOOLEAN :
       LET i == [inv[r] EXCEPT !.puts = @ + 1]
           gained(t) == SubSeq(i.db.tables[t], Len(Tables(i.buf)[t]) + 1, Len(i.db.tables[t]))
       IN  IF ok
           THEN /\ durable' = Export([i.db EXCEPT !.tables =
                                 [Tables(durable) EXCEPT
                                    !.orders = @ \o gained("orders"),
                                    !.order_items = @ \o gained("order_items")]])
                /\ version' = version + 1
                /\ inv' = [inv EXCEPT ![r] =
                     Respond(Closed([i EXCEPT !.wroteVersion = version + 1]), 200,
                             [orderId |-> i.orderId, success |-> TRUE])]
           ELSE /\ inv' = [inv EXCEPT ![r] = Caught(i, "PutObject failed")]
                /\ UNCHANGED <<durable, version>>
  /\ UNCHANGED <<page, queue, dev, env, now>>

\* an upload whose PutObject is not awaited: its failure goes unnoticed
uploadDbToS3Unawaited(r) ==
  /\ inv[r].pc = "upload"
  /\ \E ok \in BOOLEAN :
       LET i == [inv[r] EXCEPT !.puts = @ + 1]
       IN  /\ inv' = [inv EXCEPT ![r] =
                Respond(Closed([i EXCEPT !.wroteVersion = IF ok THEN version + 1 ELSE 0]),
                        200, [orderId |-> i.orderId, success |-> TRUE])]
           /\ durable' = IF ok THEN Export(i.db) ELSE durable
           /\ version' = IF ok THEN version + 1 ELSE version
  /\ UNCHANGED <<page, queue, dev, env, now>>

\* uploadDbToS3, then db.close() and the 200 response; PutObject may fail
uploadDbToS3(r) ==
  /\ inv[r].pc = "upload"
  /\ \E ok \in BOOLEAN :
       LET i == [inv[r] EXCEPT !.puts = @ + 1]
       IN  IF ok
           THEN /\ durable' = Export(i.db)
                /\ version' = version + 1
                /\ inv' = [inv EXCEPT ![r] =
                     Respond(Closed([i EXCEPT !.wroteVersion = version + 1]), 200,
                             [orderId |-> i.orderId, success |-> TRUE])]
           ELSE /\ inv' = [inv EXCEPT ![r] = Caught(i, "PutObject failed")]
                /\ UNCHANGED <<durable, version>>
  /\ UNCHANGED <<page, queue, dev, env, now>>

Tick ==
  /\ now < MaxTime
  /\ now' = now + 1
  /\ UNCHANGED <<page, queue, dev, env, durable, version, inv>>


(***************************************************************************)
(* The scoring job (the Pipeline Lambda in inference_only mode): it takes  *)
(* its own copy of shop.db, writes one prediction per order into it,       *)
(* replacing the order's earlier prediction, and stores the copy back.     *)
(***************************************************************************)
Probabilities == <<Cents(25), Cents(75)>>
LateThreshold == Cents(50)

Prediction(orderId, p, t) ==
  [order_id |-> orderId, late_delivery_probability |-> p,
   predicted_late_delivery |-> IF FGt(LateThreshold, p) THEN 0 ELSE 1,
   prediction_timestamp |-> t]

\* INSERT OR REPLACE of one prediction per order
Score(tables, p, t) ==
  LET O       == tables.orders
      Scored(row) == \E k \in DOMAIN O : O[k].order_id = row.order_id
      Unscored(row) == ~Scored(row)
      kept    == SelectSeq(tables.order_predictions.rows, Unscored)
  IN  [tables EXCEPT !.order_predictions =
         [exists |-> TRUE,
          rows |-> kept \o [k \in DOMAIN O |-> Prediction(O[k].order_id, p, t)]]]

\* the job starts on its own copy of shop.db
Started(i, payload) ==
  [i EXCEPT !.pc = "job", !.invokes = @ + 1, !.job = "running", !.payload = payload,
            !.jobdb = Database(durable), !.jobReadVersion = version]

\* an invokePipelineInference that sends the command whatever the configuration
InvokeStartUnchecked(r) ==
  /\ inv[r].pc = "invoke"
  /\ inv' = [inv EXCEPT ![r] = Started(inv[r], InvokePayload)]
  /\ UNCHANGED <<page, queue, dev, env, durable, version, now>>

\* an invokePipelineInference with InvocationType "Event": the command returns
\* once the job is queued, and the handler responds
InvokeStartEvent(r) ==
  /\ inv[r].pc = "invoke"
  /\ inv' = [inv EXCEPT ![r] =
       IF ~env.PIPELINE_LAMBDA_ARN
       THEN Caught(inv[r], "PIPELINE_LAMBDA_ARN not configured")
       ELSE Respond(Started(inv[r], InvokePayload), 200,
                    [success |-> TRUE, stdout |-> ""])]
  /\ UNCHANGED <<page, queue, dev, env, durable, version, now>>

\* invokePipelineInference up to the job's start; without the ARN it throws
InvokeStart(r) ==
  /\ inv[r].pc = "invoke"
  /\ inv' = [inv EXCEPT ![r] =
       IF ~env.PIPELINE_LAMBDA_ARN
       THEN Caught(inv[r], "PIPELINE_LAMBDA_ARN not configured")
       ELSE Started(inv[r], InvokePayload)]
  /\ UNCHANGED <<page, queue, dev, env, durable, version, now>>

\* the job's copy after scoring
Scored(db, p, t) == [db EXCEPT !.tables = Score(@, p, t)]

\* the payload of a job that ended in an error
JobError == [errorMessage |-> "job failed"]

\* the job ends, with its payload or with an errorMessage, and the handler responds
InvokeEnd(r) ==
  /\ inv[r].pc = "job"
  /\ \/ \E k \in DOMAIN Probabilities :
          /\ ~StatementThrows(inv[r].jobdb)
          /\ durable' = Export(Scored(inv[r].jobdb, Probabilities[k], now))
          /\ version' = version + 1
          /\ inv' = [inv EXCEPT ![r] =
               Respond([inv[r] EXCEPT !.jobdb = Close(Scored(@, Probabilities[k], now)),
                                      !.job = "succeeded",
                                      !.jobWroteVersion = version + 1], 200,
                       [success |-> TRUE, stdout |-> "scored"])]
     \/ /\ inv' = [inv EXCEPT ![r] =
               Caught([inv[r] EXCEPT !.job = "failed"], JobError.errorMessage)]
        /\ UNCHANGED <<durable, version>>
  /\ UNCHANGED <<page, queue, dev, env, now>>

Next ==
  \/ \E r \in Reqs : Arrive(r)
  \/ \E r \in Reqs : loadDbFromS3(r)
  \/ \E r \in Reqs : Route(r)
  \/ \E r \in Reqs : uploadDbToS3(r)
  \/ \E r \in Reqs : InvokeStart(r)
  \/ \E r \in Reqs : InvokeEnd(r)
  \/ Tick

Spec == Init /\ [][Next]_vars


(***************************************************************************)
(* The handler on its own: one invocation, from its event to its response, *)
(* for every request with and without an Origin header.                    *)
(***************************************************************************)
Origins == {Undefined, Some("https://shop.example")}

ArriveFrom(r) ==
  \E k \in DOMAIN Requests, origin \in Origins : Receive(r, From(Requests[k], origin))

NextCors ==
  \/ ArriveFrom(1)
  \/ loadDbFromS3(1)
  \/ Route(1)
  \/ uploadDbToS3(1)
  \/ InvokeStart(1)
  \/ InvokeEnd(1)

SpecCors == Init /\ [][NextCors]_vars

(***************************************************************************)
(* Sequential use: a request arrives only when no other invocation is      *)
(* between its event and its response.                                     *)
(***************************************************************************)
Busy(i) == i.pc \notin {"idle", "done"}

ArriveAlone(r) ==
  /\ \A q \in Reqs : ~Busy(inv[q])
  /\ Arrive(r)

NextSequential ==
  \/ \E r \in Reqs : ArriveAlone(r)
  \/ \E r \in Reqs : loadDbFromS3(r)
  \/ \E r \in Reqs : Route(r)
  \/ \E r \in Reqs : uploadDbToS3(r)
  \/ \E r \in Reqs : InvokeStart(r)
  \/ \E r \in Reqs : InvokeEnd(r)
  \/ Tick

SpecSequential == Init /\ [][NextSequential]_vars

(***************************************************************************)
(* The order arithmetic on its own: one invocation of POST /orders that    *)
(* holds its handle, for every cart of whole-cent prices and positive      *)
(* whole quantities within the bounds.                                     *)
(***************************************************************************)
MaxItems == 2
MaxQuantity == 3
PriceCents == {4, 165, 1901, 3000, 3332, 5000}

CartItems == {Item(Some(7), q, c) : q \in 1..MaxQuantity, c \in PriceCents}
Carts == UNION {[1..n -> CartItems] : n \in 1..MaxItems}

InitCart ==
  /\ Offline
  /\ env = [BUCKET |-> TRUE, PIPELINE_LAMBDA_ARN |-> TRUE]
  /\ durable = SeedImage
  /\ version = 0
  /\ now = 0
  /\ \E cart \in Carts :
       inv = [r \in Reqs |->
                IF r = 1
                THEN [IdleInvocation EXCEPT
                        !.pc = "route",
                        !.event = Req("POST", "/orders", <<>>, Order(Some(1), Array(cart))),
                        !.buf = durable, !.db = Database(durable), !.gets = 1]
                ELSE IdleInvocation]

NextCart == Route(1) \/ uploadDbToS3(1)

SpecMoney == InitCart /\ [][NextCart]_vars

(***************************************************************************)
(* The queries on their own: one GET that holds its handle, for every      *)
(* store within the bounds.  A store varies the table its query reads:     *)
(* customers and products in any mix of active and inactive rows and of    *)
(* upper and lower case names, orders of present and absent customers at   *)
(* equal and different times, predictions of present and absent orders     *)
(* with probabilities inside and outside [0,1], and more joinable          *)
(* predictions than the LIMIT of the priority queue.                       *)
(***************************************************************************)
MaxOrders == 3
MaxOver == 2

Customer(id, name, active) ==
  [customer_id |-> id, full_name |-> name, is_active |-> active]

CustomerPool ==
  << Customer(1, <<"B", "e", "a">>, 1), Customer(2, <<"A", "l">>, 1),
     Customer(3, <<"C", "y">>, 0), Customer(4, <<"a", "l">>, 1),
     Customer(5, <<"A", "l">>, 1) >>

Product(id, name, active) ==
  [product_id |-> id, product_name |-> name, price |-> Cents(3000), is_active |-> active]

ProductPool ==
  << Product(7, <<"W", "i">>, 1), Product(8, <<"G", "a">>, 1),
     Product(9, <<"B", "o">>, 0), Product(10, <<"a", "b">>, 1) >>

\* the rows of a pool at the positions S, in rowid order
Pick(pool, S) ==
  LET In(row) == \E k \in S : pool[k] = row
  IN  SelectSeq(pool, In)

OrderFor(id, customer, datetime) ==
  [SeedOrders[1] EXCEPT !.order_id = id, !.customer_id = customer,
                        !.order_datetime = datetime]

\* customer 9 has no row
Owners == {1, 2, 9}

CustomerStores ==
  {[SeedTables EXCEPT !.customers = Pick(CustomerPool, S)] : S \in SUBSET DOMAIN CustomerPool}

ProductStores ==
  {[SeedTables EXCEPT !.products = Pick(ProductPool, S)] : S \in SUBSET DOMAIN ProductPool}

OrderStores ==
  UNION {{[SeedTables EXCEPT !.orders = [k \in 1..n |-> OrderFor(k, f[k][1], f[k][2])]] :
            f \in [1..n -> Owners \X (0..MaxTime)]} : n \in 0..MaxOrders}

\* probabilities a prediction row can hold: the column is an unconstrained REAL
StoredProbabilities == <<Cents(25), Cents(75), Cents(150)>>

\* orders 1..MaxOrders, the last one of a customer that has no row; a
\* prediction for any of them and for an order that has no row
ScoredOrders ==
  [k \in 1..MaxOrders |-> OrderFor(k, IF k = MaxOrders THEN 9 ELSE 1 + (k % 2), k % 2)]

PredictionRows(g) ==
  LET Present(k) == g[k] # 0
      ids == SelectSeq([k \in DOMAIN g |-> k], Present)
  IN  [j \in DOMAIN ids |-> Prediction(ids[j], StoredProbabilities[g[ids[j]]], 0)]

PredictionStores ==
  {SeedTables} \cup
  {[SeedTables EXCEPT !.orders = ScoredOrders,
                      !.order_predictions = [exists |-> TRUE, rows |-> PredictionRows(g)]] :
     g \in [1..(MaxOrders + 1) -> 0..Len(StoredProbabilities)]}

\* a store with n orders, each with a prediction
Backlog(n) ==
  [SeedTables EXCEPT
     !.orders = [k \in 1..n |-> OrderFor(k, 1 + (k % 2), 0)],
     !.order_predictions =
       [exists |-> TRUE,
        rows |-> [k \in 1..n |-> Prediction(k, Cents((37 * k) % 101), 0)]]]

BacklogStores == {Backlog(QueueLimit - 1 + d) : d \in 0..MaxOver}

CustomerIds == {<<"1">>, <<"2">>, <<"9">>}

QueryCase(tables, event) == [tables |-> tables, event |-> event]

QueryCases ==
  {QueryCase(s, Req("GET", "/customers", <<>>, NoBody)) : s \in CustomerStores}
  \cup {QueryCase(s, Req("GET", "/products", <<>>, NoBody)) : s \in ProductStores}
  \cup {QueryCase(s, Req("GET", "/orders", id, NoBody)) : s \in OrderStores, id \in CustomerIds}
  \cup {QueryCase(s, Req("GET", "/priority-queue", <<>>, NoBody)) :
          s \in PredictionStores \cup BacklogStores}

\* the invocation once it has loaded the store and opened its handle
Loaded(image, event) ==
  [IdleInvocation EXCEPT !.pc = "route", !.event = event, !.buf = image,
                         !.db = Database(image), !.gets = 1]

InitQuery ==
  /\ Offline
  /\ env = [BUCKET |-> TRUE, PIPELINE_LAMBDA_ARN |-> TRUE]
  /\ version = 0
  /\ now = 0
  /\ \E c \in QueryCases :
       /\ durable = Export([tables |-> c.tables])
       /\ inv = [r \in Reqs |->
                   IF r = 1 THEN Loaded(Export([tables |-> c.tables]), c.event)
                   ELSE IdleInvocation]

NextQuery == Route(1)

SpecQuery == InitQuery /\ [][NextQuery]_vars


(***************************************************************************)
(* The Place Order page (app/src/app/orders/new/page.tsx) in one browser   *)
(* tab, in front of the handler.  React runs an event handler to its first *)
(* await and renders the state it set before the next event is delivered,  *)
(* so each handler is one step and a button that is rendered disabled      *)
(* takes no click.                                                         *)
(***************************************************************************)
\* the customer of useCustomer(): none selected, or one of the active customers
Shoppers == {Undefined, Some(1), Some(2)}

\* the quantities the Add button passes to addItem
Quantities == 0..MaxQuantity

\* lineItems.reduce((s, i) => s + i.price * i.quantity, 0)
RECURSIVE CartSum(_, _, _)
CartSum(lineItems, k, s) ==
  IF k > Len(lineItems) THEN s
  ELSE CartSum(lineItems, k + 1,
               FAdd(s, FMul(lineItems[k].price, FromInt(lineItems[k].quantity))))

CartSubtotal(lineItems) == CartSum(lineItems, 1, FZero)

\* subtotal > 100 ? 0 : 9.99
CartShippingFee(subtotal) ==
  IF FGt(subtotal, FromInt(100)) THEN FZero ELSE FromRatio(999, 100)

\* Math.round(subtotal * 0.08 * 100) / 100
CartTaxAmount(subtotal) ==
  FromRatio(MathRound(FMul(FMul(subtotal, FromRatio(8, 100)), FromInt(100))), 100)

\* Math.round((subtotal + shippingFee + taxAmount) * 100) / 100
CartTotal(subtotal, fee, tax) ==
  FromRatio(MathRound(FMul(FAdd(FAdd(subtotal, fee), tax), FromInt(100))), 100)

\* the four numbers the component computes on every render
CartAmounts(lineItems) ==
  LET subtotal == CartSubtotal(lineItems)
      fee      == CartShippingFee(subtotal)
      tax      == CartTaxAmount(subtotal)
  IN  [subtotal |-> subtotal, shippingFee |-> fee, taxAmount |-> tax,
       total |-> CartTotal(subtotal, fee, tax)]

\* x.toFixed(2) as a number of cents: the decimal nearest to the exact value of
\* x, the larger one on a tie
ToFixed2(x) ==
  IF x.m = <<>> THEN 0
  ELSE LET m == BigMul(x.m, BigFromNat(100))
           a == IF x.e >= 0 THEN BigToNat(BigShl(m, x.e))
                ELSE RoundHalf(0, m, -x.e, BigShl(<<1>>, -x.e - 1))
       IN  IF x.s = 0 THEN a ELSE -a

\* the amounts as the cart block prints them
Shown(lineItems) ==
  LET a == CartAmounts(lineItems)
  IN  [subtotal |-> ToFixed2(a.subtotal), shippingFee |-> ToFixed2(a.shippingFee),
       taxAmount |-> ToFixed2(a.taxAmount), total |-> ToFixed2(a.total)]

\* a request the page awaits: the invocation that serves it (0 when the request
\* does not reach the API and fetch rejects), and for a POST /orders the cart
\* and the amounts on the page when it was sent
Fetch(kind, slot, lineItems) ==
  [kind |-> kind, slot |-> slot, lineItems |-> lineItems, shown |-> Shown(lineItems)]

Without(s, k) == SubSeq(s, 1, k - 1) \o SubSeq(s, k + 1, Len(s))

\* fetch(...): the request reaches the API as invocation r, or it does not
Sends(r, event) ==
  IF r = 0 THEN UNCHANGED inv ELSE Invoke(r, event)

\* the fetch has settled; the invocation that served it is over
Settled(f) == IF f.slot = 0 THEN TRUE ELSE inv[f.slot].pc = "done"

Release(f) ==
  inv' = IF f.slot = 0 THEN inv ELSE [inv EXCEPT ![f.slot] = IdleInvocation]

\* res.ok
Ok(f) == f.slot # 0 /\ inv[f.slot].response.statusCode \in 200..299

\* the page is opened: the component is created and its effect fetches /products
OpenPlaceOrder(customer, r) ==
  /\ page = PlaceOrderClosed
  /\ Sends(r, Req("GET", "/products", <<>>, NoBody))
  /\ page' = [NewOrderPage(customer) EXCEPT !.fetches = <<Fetch("products", r, <<>>)>>]
  /\ UNCHANGED <<queue, dev, env, durable, version, now>>

\* r.json() gives an array of products
IsProducts(f) ==
  f.slot # 0 /\ inv[f.slot].response.json /\ inv[f.slot].response.statusCode = 200

\* .then(r => r.json()).then(setProducts).catch(console.error).finally(...):
\* whatever r.json() gives becomes products, and a value that is not an array
\* ends the page when products.map is rendered
ProductsSettle(k) ==
  /\ k \in DOMAIN page.fetches
  /\ page.fetches[k].kind = "products"
  /\ Settled(page.fetches[k])
  /\ LET f == page.fetches[k]
         p == [page EXCEPT !.fetches = Without(@, k), !.loading = FALSE]
     IN  /\ page' = IF f.slot = 0 \/ ~inv[f.slot].response.json THEN p
                    ELSE IF IsProducts(f)
                      THEN [p EXCEPT !.products = inv[f.slot].response.body]
                    ELSE [p EXCEPT !.open = FALSE]
         /\ Release(f)
  /\ UNCHANGED <<queue, dev, env, durable, version, now>>

\* the product list and its Add buttons are rendered
ShowsProducts(p) == p.open /\ p.customer # Undefined /\ ~p.loading

LineItem(p, qty) == [productId |-> p.product_id, price |-> p.price, quantity |-> qty]

Merged(lineItems, p, qty) ==
  IF \E k \in DOMAIN lineItems : lineItems[k].productId = p.product_id
  THEN [k \in DOMAIN lineItems |->
          IF lineItems[k].productId = p.product_id
          THEN [lineItems[k] EXCEPT !.quantity = @ + qty]
          ELSE lineItems[k]]
  ELSE Append(lineItems, LineItem(p, qty))

addItem(k, qty) ==
  /\ ShowsProducts(page)
  /\ k \in DOMAIN page.products
  /\ \A j \in DOMAIN page.lineItems :
       page.lineItems[j].productId = page.products[k].product_id
         => page.lineItems[j].quantity + qty <= MaxQuantity
  /\ page' = IF qty <= 0 THEN page
             ELSE [page EXCEPT !.lineItems = Merged(@, page.products[k], qty)]
  /\ UNCHANGED <<queue, dev, env, durable, version, now, inv>>

removeItem(k) ==
  /\ ShowsProducts(page)
  /\ k \in DOMAIN page.lineItems
  /\ page' = [page EXCEPT !.lineItems = Without(@, k)]
  /\ UNCHANGED <<queue, dev, env, durable, version, now, inv>>

\* a Place Order button that takes clicks while a submission is awaited
PlaceOrderButtonAlways(p) == ShowsProducts(p) /\ Len(p.lineItems) > 0

\* the Place Order button is rendered, inside the cart block, and not disabled
PlaceOrderButton(p) == ShowsProducts(p) /\ Len(p.lineItems) > 0 /\ ~p.submitting

\* JSON.stringify({customerId, items}) of handleSubmit
OrderOf(customer, lineItems) ==
  Order(customer,
        Array([k \in DOMAIN lineItems |->
                 [productId |-> Some(lineItems[k].productId),
                  quantity |-> lineItems[k].quantity,
                  unitPrice |-> lineItems[k].price]]))

\* handleSubmit up to its await
handleSubmit(r) ==
  /\ PlaceOrderButton(page)
  /\ ~(page.customer = Undefined \/ Len(page.lineItems) = 0)
  /\ Sends(r, Req("POST", "/orders", <<>>, OrderOf(page.customer, page.lineItems)))
  /\ page' = [page EXCEPT !.submitting = TRUE,
                          !.fetches = Append(@, Fetch("orders", r, page.lineItems))]
  /\ UNCHANGED <<queue, dev, env, durable, version, now>>

\* handleSubmit from its await on: router.push on res.ok, the alert otherwise,
\* and setSubmitting(false) in either case
SubmitSettles(k) ==
  /\ k \in DOMAIN page.fetches
  /\ page.fetches[k].kind = "orders"
  /\ Settled(page.fetches[k])
  /\ LET f == page.fetches[k]
         p == [page EXCEPT !.fetches = Without(@, k), !.submitting = FALSE]
     IN  /\ page' = IF Ok(f) THEN [p EXCEPT !.pushed = TRUE, !.open = FALSE]
                    ELSE [p EXCEPT !.alerted = TRUE]
         /\ Release(f)
  /\ UNCHANGED <<queue, dev, env, durable, version, now>>

\* the shop.db the page is opened on: the deployed one, or one with other prices
Catalogues ==
  {SeedImage,
   Export([tables |-> [SeedTables EXCEPT !.products =
      << [SeedProducts[1] EXCEPT !.price = Cents(1901)],
         [SeedProducts[2] EXCEPT !.price = Cents(165)] >>]])}

InitPage ==
  /\ Offline
  /\ env = [BUCKET |-> TRUE, PIPELINE_LAMBDA_ARN |-> TRUE]
  /\ durable \in Catalogues
  /\ version = 0
  /\ now = 0
  /\ inv = [r \in Reqs |-> IdleInvocation]

NextPage ==
  \/ \E c \in Shoppers, r \in {0} \cup Reqs : OpenPlaceOrder(c, r)
  \/ \E k \in 1..MaxReq + 1 : ProductsSettle(k)
  \/ \E k \in 1..MaxItems, qty \in Quantities : addItem(k, qty)
  \/ \E k \in 1..MaxItems : removeItem(k)
  \/ \E r \in {0} \cup Reqs : handleSubmit(r)
  \/ \E k \in 1..MaxReq + 1 : SubmitSettles(k)
  \/ \E r \in Reqs : loadDbFromS3(r)
  \/ \E r \in Reqs : Route(r)
  \/ \E r \in Reqs : uploadDbToS3(r)

SpecPage == InitPage /\ [][NextPage]_vars


(***************************************************************************)
(* The Priority Queue page (app/src/app/priority-queue/page.tsx) in one    *)
(* browser tab, in front of the handler and the scoring job.               *)
(***************************************************************************)
\* a request the page awaits: GET /priority-queue ("queue") or POST
\* /run-scoring ("scoring"), the invocation that serves it (0 when fetch
\* rejects), and the number of scoring successes when it was issued
QueueFetch(kind, slot, after) == [kind |-> kind, slot |-> slot, after |-> after]

QueueAwaited(kind) == {k \in DOMAIN queue.fetches : queue.fetches[k].kind = kind}

\* fetchQueue up to the fetch: setLoading(true) and the request, served by
\* invocation r
fetchQueue(q, r) ==
  [q EXCEPT !.loading = TRUE,
            !.fetches = Append(@, QueueFetch("queue", r, q.completed))]

\* the page is opened: the component is created and its effect calls fetchQueue
OpenPriorityQueue(r) ==
  /\ queue = QueueClosed
  /\ Sends(r, Req("GET", "/priority-queue", <<>>, NoBody))
  /\ queue' = fetchQueue(PriorityQueuePage, r)
  /\ UNCHANGED <<page, dev, env, durable, version, now>>

\* r.json() gives an array of rows
IsRows(f) ==
  f.slot # 0 /\ inv[f.slot].response.json /\ inv[f.slot].response.statusCode = 200

\* fetchQueue from the response on: .then(r => r.json()).then(setRows)
\* .catch(console.error).finally(() => setLoading(false)).  Whatever r.json()
\* gives becomes rows, whichever fetch it answers; a value that is not an
\* array ends the page when rows.map is rendered
QueueSettles(k) ==
  /\ k \in QueueAwaited("queue")
  /\ Settled(queue.fetches[k])
  /\ LET f == queue.fetches[k]
         q == [queue EXCEPT !.fetches = Without(@, k), !.loading = FALSE]
     IN  /\ queue' = IF f.slot = 0 \/ ~inv[f.slot].response.json
                       THEN [q EXCEPT !.failed = TRUE]
                     ELSE IF IsRows(f)
                       THEN [q EXCEPT !.rows = inv[f.slot].response.body,
                                      !.shownAfter = f.after]
                     ELSE [q EXCEPT !.open = FALSE, !.failed = TRUE]
         /\ Release(f)
  /\ UNCHANGED <<page, dev, env, durable, version, now>>

\* the Run Scoring button is rendered and not disabled
RunScoringButton(q) == q.open /\ ~q.scoring

\* handleRunScoring up to its await
handleRunScoring(r) ==
  /\ RunScoringButton(queue)
  /\ queue.sent < MaxReq
  /\ Sends(r, Req("POST", "/run-scoring", <<>>, NoBody))
  /\ queue' = [queue EXCEPT !.scoring = TRUE, !.sent = @ + 1,
                            !.fetches = Append(@, QueueFetch("scoring", r, queue.completed))]
  /\ UNCHANGED <<page, dev, env, durable, version, now>>

\* handleRunScoring from its await on: fetchQueue() on res.ok, the alert
\* otherwise, and setScoring(false) in either case; r serves the new fetch
ScoringSettles(k, r) ==
  /\ k \in QueueAwaited("scoring")
  /\ Settled(queue.fetches[k])
  /\ LET f == queue.fetches[k]
         q == [queue EXCEPT !.fetches = Without(@, k), !.scoring = FALSE]
         released == IF f.slot = 0 THEN inv ELSE [inv EXCEPT ![f.slot] = IdleInvocation]
     IN  IF Ok(f)
         THEN /\ queue' = fetchQueue([q EXCEPT !.completed = @ + 1], r)
              /\ IF r = 0 THEN inv' = released
                 ELSE /\ released[r].pc = "idle"
                      /\ inv' = [released EXCEPT ![r] =
                           Accepted(released[r], Req("GET", "/priority-queue", <<>>, NoBody))]
         ELSE /\ r = 0
              /\ queue' = [q EXCEPT !.alerted = TRUE, !.failed = TRUE]
              /\ inv' = released
  /\ UNCHANGED <<page, dev, env, durable, version, now>>

InitQueuePage ==
  /\ Offline
  /\ env = [BUCKET |-> TRUE, PIPELINE_LAMBDA_ARN |-> TRUE]
  /\ durable = SeedImage
  /\ version = 0
  /\ now = 0
  /\ inv = [r \in Reqs |-> IdleInvocation]

NextQueuePage ==
  \/ \E r \in {0} \cup Reqs : OpenPriorityQueue(r)
  \/ \E k \in 1..MaxReq + 1 : QueueSettles(k)
  \/ \E r \in {0} \cup Reqs : handleRunScoring(r)
  \/ \E k \in 1..MaxReq + 1, r \in {0} \cup Reqs : ScoringSettles(k, r)
  \/ \E r \in Reqs : loadDbFromS3(r)
  \/ \E r \in Reqs : Route(r)
  \/ \E r \in Reqs : InvokeStart(r)
  \/ \E r \in Reqs : InvokeEnd(r)

SpecQueuePage == InitQueuePage /\ [][NextQueuePage]_vars


(***************************************************************************)
(* The local dev API server (app/scripts/dev-api-server.js): one process,  *)
(* better-sqlite3 on the file data/shop.db, a request served to its        *)
(* response before the next.  It is run beside the handler: each request   *)
(* the handler has answered is given to the server too, in the same order, *)
(* with the outcome of the scoring job that the handler's invocation had.  *)
(***************************************************************************)
DevServer(file) ==
  [up |-> TRUE, file |-> file, responses |-> [r \in Reqs |-> NoResponse],
   served |-> [r \in Reqs |-> FALSE]]

\* send(res, status, data, headers)
send(statusCode, data, origin) ==
  [statusCode |-> statusCode,
   headers |-> ("Content-Type" :> "application/json") @@ corsHeaders(origin),
   body |-> data, json |-> TRUE]

\* db.pragma("foreign_keys = ON")
DevForeignKeys == TRUE

HasCustomer(tables, customerId) ==
  \E i \in DOMAIN tables.customers : tables.customers[i].customer_id = customerId

\* insertOrder.run(...) throws
DevInsertOrderThrows(db, customerId) ==
  DevForeignKeys /\ ~HasCustomer(db.tables, customerId)

\* insertItem.run(...) throws
DevInsertItemThrows(db, orderId, it) ==
  \/ BindThrows(<<Some(orderId), it.productId, Some(it.quantity), Some(it.unitPrice)>>)
  \/ DevForeignKeys /\ ~HasProduct(db.tables, it.productId[1])

\* for (const it of items) insertItem.run(...)
RECURSIVE DevInsertItems(_, _, _, _)
DevInsertItems(db, orderId, items, i) ==
  IF i > Len(items) THEN [db |-> db, threw |-> FALSE]
  ELSE IF DevInsertItemThrows(db, orderId, items[i]) THEN [db |-> db, threw |-> TRUE]
  ELSE DevInsertItems([db EXCEPT !.tables.order_items = Append(@, ItemRow(orderId, items[i]))],
                      orderId, items, i + 1)

\* tx(): db.transaction rolls back what it inserted when an insert throws.
\* The amounts are computed by the expressions of postOrder (102-106).
DevTransaction(db, customerId, items, orderDatetime) ==
  IF DevInsertOrderThrows(db, customerId)
  THEN [db |-> db, threw |-> TRUE, orderId |-> 0]
  ELSE LET ordered == InsertOrder(db, customerId, orderDatetime, OrderAmounts(items))
           ins     == DevInsertItems(ordered, LastInsertRowid(ordered), items, 1)
       IN  IF ins.threw THEN [db |-> db, threw |-> TRUE, orderId |-> 0]
           ELSE [db |-> ins.db, threw |-> FALSE, orderId |-> LastInsertRowid(ordered)]

\* what the server leaves in the file, and its response
Served(db, response) == [file |-> Export(db), response |-> response]

\* the catch block of the server
DevCaught(db, message, origin) == Served(db, send(500, [error |-> message], origin))

DevPostOrders(db, event, t) ==
  IF JsonParseThrows(event.body) THEN DevCaught(db, "Unexpected token", event.origin)
  ELSE IF InvalidOrderBody(event.body)
    THEN Served(db, send(400, [error |-> "customerId and items (array) required"],
                         event.origin))
  ELSE LET tx == DevTransaction(db, event.body.customerId[1], event.body.items.elems, t)
       IN  IF tx.threw THEN DevCaught(db, "insert failed", event.origin)
           ELSE Served(tx.db, send(200, [orderId |-> tx.orderId, success |-> TRUE],
                                   event.origin))

DevGetOrders(db, event) ==
  IF event.customerId = <<>>
  THEN Served(db, send(400, [error |-> "customerId required"], event.origin))
  ELSE Served(db, send(200, getOrders(db, parseInt(event.customerId)), event.origin))

\* the python job: exit code 0 and the predictions written to the file, or
\* another exit code and the job's stderr
DevRunScoring(db, event, t, job, p) ==
  IF job = "succeeded"
  THEN Served(Scored(db, p, t), send(200, [success |-> TRUE, stdout |-> "scored"],
                                     event.origin))
  ELSE Served(db, send(500, [error |-> "Scoring job failed",
                             stderr |-> Some("Traceback")], event.origin))

\* the routes of the server on the open file; its SELECT statements are those
\* of the handler
DevDispatch(db, event, t, job, p) ==
  LET method == event.method
      path   == event.path
  IN  IF path = "/customers" /\ method = "GET"
        THEN Served(db, send(200, getCustomers(db), event.origin))
      ELSE IF path = "/products" /\ method = "GET"
        THEN Served(db, send(200, getProducts(db), event.origin))
      ELSE IF path = "/orders" /\ method = "GET" THEN DevGetOrders(db, event)
      ELSE IF path = "/orders" /\ method = "POST" THEN DevPostOrders(db, event, t)
      ELSE IF path = "/priority-queue" /\ method = "GET"
        THEN Served(EnsurePredictions(db),
                    send(200, QueueRows(EnsurePredictions(db)), event.origin))
      ELSE IF path = "/run-scoring" /\ method = "POST"
        THEN DevRunScoring(db, event, t, job, p)
      ELSE Served(db, send(404, [error |-> "Not found"], event.origin))

\* the probability the handler's scoring job wrote
JobProbability(i) ==
  LET P == i.jobdb.tables.order_predictions.rows
  IN  IF P = <<>> THEN Probabilities[1] ELSE P[Len(P)].late_delivery_probability

\* the server serves the request that invocation r has answered
DevServes(r) ==
  /\ dev.up
  /\ inv[r].pc = "done"
  /\ ~dev.served[r]
  /\ LET res == DevDispatch(Database(dev.file), inv[r].event, now, inv[r].job,
                            JobProbability(inv[r]))
     IN  dev' = [dev EXCEPT !.file = res.file, !.responses[r] = res.response,
                            !.served[r] = TRUE]
  /\ UNCHANGED <<page, queue, env, durable, version, now, inv>>

\* GET /customers, GET /products, GET and POST /orders, GET /priority-queue,
\* POST /run-scoring
OnSixRoutes(event) ==
  \/ event.method = "GET"
       /\ event.path \in {"/customers", "/products", "/orders", "/priority-queue"}
  \/ event.method = "POST" /\ event.path \in {"/orders", "/run-scoring"}

\* a request arrives when both programs have answered the one before
ArriveBoth(r) ==
  /\ \A q \in Reqs : ~Busy(inv[q]) /\ (inv[q].pc = "done" => dev.served[q])
  /\ \E k \in DOMAIN Requests :
       /\ OnSixRoutes(Requests[k])
       /\ Invoke(r, Requests[k])
  /\ UNCHANGED <<page, queue, dev, env, durable, version, now>>

InitDev ==
  /\ page = PlaceOrderClosed
  /\ queue = QueueClosed
  /\ dev = DevServer(SeedImage)
  /\ env = [BUCKET |-> TRUE, PIPELINE_LAMBDA_ARN |-> TRUE]
  /\ durable = SeedImage
  /\ version = 0
  /\ now = 0
  /\ inv = [r \in Reqs |-> IdleInvocation]

NextDev ==
  \/ \E r \in Reqs : ArriveBoth(r)
  \/ \E r \in Reqs : DevServes(r)
  \/ \E r \in Reqs : loadDbFromS3(r)
  \/ \E r \in Reqs : Route(r)
  \/ \E r \in Reqs : uploadDbToS3(r)
  \/ \E r \in Reqs : InvokeStart(r)
  \/ \E r \in Reqs : InvokeEnd(r)

SpecDev == InitDev /\ [][NextDev]_vars


(***************************************************************************)
(* Properties                                                              *)
(***************************************************************************)
IsPostOrders(i) == i.event.method = "POST" /\ i.event.path = "/orders"
IsDone(i) == i.pc = "done"
Status(i) == i.response.statusCode
\* the invocation got its handle: it fetched a well-formed shop.db and opened it
Acquired(i) == i.buf.format = SqliteFormat
\* the body is JSON text whose items is an array
HasItemArray(i) == i.event.body.kind = "json" /\ i.event.body.items.type = "array"

WithOrderId(rows, id) == LET Is(row) == row.order_id = id IN SelectSeq(rows, Is)

\* the order rows a handle holds that the fetched copy did not
NewOrders(i) == Range(i.db.tables.orders) \ Range(Tables(i.buf).orders)

ItemMatches(row, id, it) ==
  /\ row.order_id = id
  /\ it.productId = <<row.product_id>>
  /\ row.quantity = it.quantity
  /\ row.unit_price = it.unitPrice

\* rows are the item rows of the items, one each and in their order, under order id
ItemsMatch(rows, id, items) ==
  /\ Len(rows) = Len(items)
  /\ \A k \in DOMAIN rows : ItemMatches(rows[k], id, items[k])

\* C1: when an order-item insert fails in postOrder, the handle afterwards holds
\* neither the new order row nor any of its items (it holds what was fetched),
\* the response is 500, and the invocation sends nothing to the bucket.
C1_FailedInsertRollsBack ==
  \A r \in Reqs :
    inv[r].threw =>
      /\ IsDone(inv[r])
      /\ Status(inv[r]) = 500
      /\ inv[r].db.tables = Tables(inv[r].buf)
      /\ ~inv[r].db.tx.active
      /\ inv[r].puts = 0
      /\ inv[r].wroteVersion = 0

\* an insert failed after the order row and a first item row had been inserted
C1_Witness ==
  \E r \in Reqs :
    /\ inv[r].threw
    /\ Len(inv[r].event.body.items.elems) = 2
    /\ inv[r].event.body.items.elems[1].productId # Undefined

\* two POST /orders that fetched the same copy, both committed and both stored,
\* r1 first and r2 last, with no write after r2's
Raced(r1, r2) ==
  /\ r1 # r2
  /\ IsPostOrders(inv[r1]) /\ IsPostOrders(inv[r2])
  /\ inv[r1].committed /\ inv[r2].committed
  /\ inv[r1].readVersion = inv[r2].readVersion
  /\ inv[r1].wroteVersion > 0
  /\ inv[r2].wroteVersion > inv[r1].wroteVersion
  /\ version = inv[r2].wroteVersion

\* C2: two POST /orders that fetch the same shop.db before either stores both
\* respond 200, and shop.db is then what the later PutObject stored: it holds
\* that invocation's order and items and not the order of the earlier one.
C2_LastWriterWins ==
  \A r1, r2 \in Reqs :
    Raced(r1, r2) =>
      /\ Status(inv[r1]) = 200 /\ Status(inv[r2]) = 200
      /\ Tables(durable) = inv[r2].db.tables
      /\ Cardinality(NewOrders(inv[r2])) = 1
      /\ NewOrders(inv[r2]) \subseteq Range(Tables(durable).orders)
      /\ (NewOrders(inv[r1]) \ NewOrders(inv[r2])) \cap Range(Tables(durable).orders) = {}
      /\ Len(Tables(durable).orders) = Len(Tables(inv[r2].buf).orders) + 1
      /\ ItemsMatch(WithOrderId(Tables(durable).order_items, inv[r2].orderId),
                    inv[r2].orderId, inv[r2].event.body.items.elems)

\* the race happened, between two different orders
C2_Witness ==
  \E r1, r2 \in Reqs : Raced(r1, r2) /\ NewOrders(inv[r1]) # NewOrders(inv[r2])

\* C3: every order in shop.db is there with all the item rows of the request
\* that placed it, in every state, whatever the interleaving and whichever
\* GetObject, insert or PutObject failed.
C3_NoPartialOrder ==
  \A k \in DOMAIN Tables(durable).orders :
    LET o == Tables(durable).orders[k]
        rows == WithOrderId(Tables(durable).order_items, o.order_id)
    IN  \/ /\ o \in Range(SeedOrders)
           /\ rows = WithOrderId(SeedItems, o.order_id)
        \/ \E r \in Reqs :
             /\ IsPostOrders(inv[r])
             /\ inv[r].committed
             /\ o \in NewOrders(inv[r])
             /\ ItemsMatch(rows, o.order_id, inv[r].event.body.items.elems)

\* shop.db holds a placed order of two items, after an invocation failed
C3_Witness ==
  /\ \E k \in DOMAIN Tables(durable).orders :
       /\ Tables(durable).orders[k] \notin Range(SeedOrders)
       /\ Len(WithOrderId(Tables(durable).order_items, Tables(durable).orders[k].order_id)) = 2
  /\ \E r \in Reqs : IsDone(inv[r]) /\ Status(inv[r]) = 500

\* C4: POST /orders answers 200 with an orderId only once its PutObject has
\* completed, and what it stored holds exactly one new order row, with that id and
\* the given customer, and one item row per input item, in input order, each with
\* that order id; when the PutObject fails the answer is 500.
C4_SuccessAfterPersist ==
  \A r \in Reqs :
    IsPostOrders(inv[r]) /\ IsDone(inv[r]) =>
      /\ Status(inv[r]) = 200 =>
           /\ inv[r].puts = 1
           /\ inv[r].wroteVersion > 0
           /\ inv[r].response.body.orderId = inv[r].orderId
           /\ Len(WithOrderId(inv[r].db.tables.orders, inv[r].orderId)) = 1
           /\ Len(WithOrderId(Tables(inv[r].buf).orders, inv[r].orderId)) = 0
           /\ Len(inv[r].db.tables.orders) = Len(Tables(inv[r].buf).orders) + 1
           /\ \A k \in DOMAIN inv[r].db.tables.orders :
                inv[r].db.tables.orders[k].order_id = inv[r].orderId =>
                  <<inv[r].db.tables.orders[k].customer_id>> = inv[r].event.body.customerId
           /\ ItemsMatch(WithOrderId(inv[r].db.tables.order_items, inv[r].orderId),
                         inv[r].orderId, inv[r].event.body.items.elems)
           /\ (version = inv[r].wroteVersion => Tables(durable) = inv[r].db.tables)
      /\ (inv[r].puts = 1 /\ inv[r].wroteVersion = 0 => Status(inv[r]) = 500)

\* one POST /orders of two items answered 200, another lost its PutObject
C4_Witness ==
  \E r1, r2 \in Reqs :
    /\ IsPostOrders(inv[r1]) /\ IsDone(inv[r1]) /\ Status(inv[r1]) = 200
    /\ Len(inv[r1].event.body.items.elems) = 2
    /\ IsPostOrders(inv[r2]) /\ IsDone(inv[r2])
    /\ inv[r2].puts = 1 /\ inv[r2].wroteVersion = 0


\* an amount of whole cents, in cents
ToCents(x) == MathRound(FMul(x, Hundred))
IsWholeCents(x) == Cents(ToCents(x)) = x

RECURSIVE SumCents(_, _)
SumCents(items, k) ==
  IF k = 0 THEN 0
  ELSE SumCents(items, k - 1) + items[k].quantity * ToCents(items[k].unitPrice)

\* a non-empty list of positive whole quantities at positive whole-cent prices
IsPlainCart(items) ==
  /\ Len(items) > 0
  /\ \A k \in DOMAIN items :
       /\ items[k].quantity > 0
       /\ IsPositive(items[k].unitPrice)
       /\ IsWholeCents(items[k].unitPrice)

\* the amounts of the data model for a subtotal of sub cents, as decimal numbers
DecimalAmounts(sub) ==
  LET ship == IF sub > 10000 THEN 0 ELSE 999
      tax  == (8 * sub + 50) \div 100
  IN  [order_subtotal |-> Cents(sub), shipping_fee |-> Cents(ship),
       tax_amount |-> Cents(tax), order_total |-> Cents(sub + ship + tax)]

\* the amounts of a stored order row, its unrounded subtotal taken to the cent
StoredAmounts(row) ==
  [order_subtotal |-> Cents(ToCents(row.order_subtotal)), shipping_fee |-> row.shipping_fee,
   tax_amount |-> row.tax_amount, order_total |-> row.order_total]

\* C5: for every non-empty list of positive whole quantities at positive
\* whole-cent prices, the order row postOrder stores has subtotal = the sum of
\* quantity * unitPrice, shipping_fee = 0 above 100 and 9.99 up to and at 100.00,
\* tax = 8% of the subtotal rounded half-up to cents, total = their sum in cents.
C5_OrderAmounts ==
  \A r \in Reqs :
    IsPostOrders(inv[r]) /\ inv[r].committed
      /\ IsPlainCart(inv[r].event.body.items.elems) =>
        \A row \in NewOrders(inv[r]) :
          StoredAmounts(row) =
            DecimalAmounts(SumCents(inv[r].event.body.items.elems,
                                    Len(inv[r].event.body.items.elems)))

\* C6: POST /orders with an empty items list is answered 400, inserts no row
\* into the handle and sends nothing to the bucket.
C6_EmptyItemsRejected ==
  \A r \in Reqs :
    IsPostOrders(inv[r]) /\ HasItemArray(inv[r])
      /\ Len(inv[r].event.body.items.elems) = 0 /\ Acquired(inv[r]) =>
        /\ inv[r].pc \in {"route", "done"}
        /\ inv[r].db.tables = Tables(inv[r].buf)
        /\ inv[r].puts = 0
        /\ inv[r].wroteVersion = 0
        /\ IsDone(inv[r]) => Status(inv[r]) = 400

\* an empty items list was answered
C6_Witness ==
  \E r \in Reqs :
    /\ IsPostOrders(inv[r]) /\ HasItemArray(inv[r])
    /\ inv[r].event.body.customerId # Undefined
    /\ Len(inv[r].event.body.items.elems) = 0
    /\ Acquired(inv[r]) /\ IsDone(inv[r])

\* C7: POST /orders with an item whose quantity or unitPrice is zero or negative
\* is answered 400 and creates no order and no order item.
C7_NonPositiveRejected ==
  \A r \in Reqs :
    IsPostOrders(inv[r]) /\ HasItemArray(inv[r]) /\ Acquired(inv[r])
      /\ (\E k \in DOMAIN inv[r].event.body.items.elems :
            \/ inv[r].event.body.items.elems[k].quantity <= 0
            \/ ~IsPositive(inv[r].event.body.items.elems[k].unitPrice)) =>
        /\ inv[r].db.tables = Tables(inv[r].buf)
        /\ IsDone(inv[r]) => Status(inv[r]) = 400

\* C8: POST /orders with an invalid body is answered 400, never 500 or 200: a
\* body without customerId, a body whose items is missing, not an array or empty,
\* and a body that is not JSON.
C8_InvalidBodyIs400 ==
  \A r \in Reqs :
    IsPostOrders(inv[r]) /\ Acquired(inv[r]) /\ IsDone(inv[r])
      /\ (\/ inv[r].event.body.kind = "text"
          \/ inv[r].event.body.customerId = Undefined
          \/ inv[r].event.body.items.type # "array"
          \/ Len(inv[r].event.body.items.elems) = 0) =>
        Status(inv[r]) = 400

ReferencesResolve(tables) ==
  \A k \in DOMAIN tables.order_items :
    /\ \E o \in DOMAIN tables.orders :
         tables.orders[o].order_id = tables.order_items[k].order_id
    /\ HasProduct(tables, tables.order_items[k].product_id)

\* C9: after any sequence of order requests, also ones naming products or
\* customers the store does not have, every order-item row of the store refers
\* to an order row and a product row that exist.
C9_ReferencesResolve == ReferencesResolve(Tables(durable))

\* C10 as stated: only a POST /orders whose transaction committed sends a
\* PutObject, and sends one; the other routes and every request answered with an
\* error send none.
C10_OnlyCommittedPostWrites ==
  \A r \in Reqs :
    /\ inv[r].puts <= 1
    /\ inv[r].puts = 1 => IsPostOrders(inv[r]) /\ inv[r].committed
    /\ IsDone(inv[r]) /\ inv[r].committed => inv[r].puts = 1
    /\ IsDone(inv[r]) /\ Status(inv[r]) >= 400 => inv[r].puts = 0

\* C10 amended: only a POST /orders whose transaction committed sends a
\* PutObject, and sends one; the other routes send none, and a request answered
\* with an error has sent none unless the error is the failure of that one
\* PutObject, which leaves shop.db as it was and is answered 500.
C10_WritesOnlyAfterCommit ==
  \A r \in Reqs :
    /\ inv[r].puts <= 1
    /\ inv[r].puts = 1 => IsPostOrders(inv[r]) /\ inv[r].committed
    /\ IsDone(inv[r]) /\ inv[r].committed => inv[r].puts = 1
    /\ IsDone(inv[r]) /\ Status(inv[r]) >= 400 /\ inv[r].puts = 1 =>
         inv[r].committed /\ Status(inv[r]) = 500 /\ inv[r].wroteVersion = 0
    /\ inv[r].wroteVersion > 0 => inv[r].puts = 1 /\ Status(inv[r]) = 200

\* a query was answered without a PutObject, and a POST /orders lost its one
C10_Witness ==
  \E r1, r2 \in Reqs :
    /\ inv[r1].event.path = "/priority-queue" /\ IsDone(inv[r1]) /\ Status(inv[r1]) = 200
    /\ inv[r1].puts = 0
    /\ IsDone(inv[r2]) /\ inv[r2].committed /\ Status(inv[r2]) = 500

\* the invocation ran one of the four queries on its handle and answered 200
IsQuery(i) ==
  /\ i.event.method = "GET"
  /\ i.event.path \in {"/customers", "/products", "/orders", "/priority-queue"}
  /\ IsDone(i) /\ Status(i) = 200

\* the query of the invocation's route, run on the handle db
Requery(i, db) ==
  CASE i.event.path = "/customers" -> getCustomers(db)
    [] i.event.path = "/products" -> getProducts(db)
    [] i.event.path = "/orders" -> getOrders(db, parseInt(i.event.customerId))
    [] OTHER -> getPriorityQueue(db).rows

\* C11: each of getCustomers, getProducts, getOrders and getPriorityQueue leaves
\* the handle it runs on as it was fetched, schema and rows, and the same query
\* run again on that handle returns what the first run returned.
C11_QueriesReadOnly ==
  \A r \in Reqs :
    IsQuery(inv[r]) =>
      /\ inv[r].db.tables = Tables(inv[r].buf)
      /\ Requery(inv[r], inv[r].db) = inv[r].response.body

\* the invocation's GetObject failed: it asked once and holds no bytes
FetchFailed(i) == i.gets = 1 /\ i.buf = NoBuf

\* C12: when shop.db cannot be fetched the invocation ends with a 500 response
\* whose JSON body has an error, having opened no handle (so run no query and no
\* transaction), sent no PutObject and invoked no job.
C12_FetchFailureIs500 ==
  \A r \in Reqs :
    FetchFailed(inv[r]) =>
      /\ IsDone(inv[r])
      /\ Status(inv[r]) = 500
      /\ inv[r].response.body.error = "GetObject failed"
      /\ inv[r].db = NoDb
      /\ ~inv[r].threw /\ ~inv[r].committed
      /\ inv[r].puts = 0 /\ inv[r].wroteVersion = 0
      /\ inv[r].invokes = 0

\* the fetch failed for a well-formed POST /orders and for a POST /run-scoring
C12_Witness ==
  \E r1, r2 \in Reqs :
    /\ FetchFailed(inv[r1]) /\ IsPostOrders(inv[r1])
    /\ HasItemArray(inv[r1]) /\ Len(inv[r1].event.body.items.elems) = 2
    /\ FetchFailed(inv[r2]) /\ inv[r2].event.path = "/run-scoring"

\* the invocation fetched an object of zero bytes or one that is no SQLite file
FetchedCorrupt(i) ==
  i.gets = 1 /\ i.buf.format \in {EmptyFile.format, NotADatabase.format}

\* C13: when shop.db is empty or malformed the acquire fails: the request is
\* answered with an error and has no handle it can use, nothing is created in
\* the store, no data is returned, nothing is stored and no job is started.
C13_CorruptSnapshotRejected ==
  \A r \in Reqs :
    FetchedCorrupt(inv[r]) =>
      /\ inv[r].db.tables = Tables(inv[r].buf)
      /\ inv[r].puts = 0
      /\ inv[r].invokes = 0
      /\ IsDone(inv[r]) => Status(inv[r]) = 500

\* r2 fetched what the POST /orders r1 had stored, before any other write
ReadsWriteOf(r2, r1) ==
  /\ r1 # r2
  /\ IsPostOrders(inv[r1]) /\ inv[r1].wroteVersion > 0
  /\ inv[r2].gets = 1 /\ inv[r2].buf # NoBuf
  /\ inv[r2].readVersion = inv[r1].wroteVersion

IsRunScoring(i) == i.event.method = "POST" /\ i.event.path = "/run-scoring"

\* what GET /priority-queue returns from a stored shop.db
QueueOf(buf) == QueueRows(EnsurePredictions(Database(buf)))

\* C15: without PIPELINE_LAMBDA_ARN no step of a POST /run-scoring invokes the
\* job or changes shop.db, so getPriorityQueue returns after it what it returned
\* before it, and the request is answered 500.
C15_NoJobConfigured ==
  [][\A r \in Reqs :
       IsRunScoring(inv'[r]) /\ inv'[r] # inv[r] /\ ~env.PIPELINE_LAMBDA_ARN =>
         /\ durable' = durable
         /\ QueueOf(durable') = QueueOf(durable)
         /\ inv'[r].invokes = 0 /\ inv'[r].job = "none"
         /\ IsDone(inv'[r]) => Status(inv'[r]) = 500]_vars

\* without the ARN a POST /run-scoring got its handle, closed it and was answered
C15_Witness ==
  \E r \in Reqs :
    /\ IsRunScoring(inv[r]) /\ ~env.PIPELINE_LAMBDA_ARN
    /\ Acquired(inv[r]) /\ inv[r].closes = 1 /\ IsDone(inv[r])
    /\ inv[r].response.body.error = "PIPELINE_LAMBDA_ARN not configured"

\* C16: when the job ends in an error, POST /run-scoring is answered 500 with the
\* job's stderr in the response body, and never with success.
C16_JobFailureCarriesStderr ==
  \A r \in Reqs :
    IsRunScoring(inv[r]) /\ inv[r].job = "failed" =>
      /\ IsDone(inv[r])
      /\ Status(inv[r]) = 500
      /\ inv[r].response.body.error = JobError.errorMessage
      /\ inv[r].response.body.stderr # Undefined

\* C17: POST /run-scoring is not answered while the job it invoked is running,
\* only once the job has succeeded or failed, and the job is invoked with the
\* payload {mode: "inference_only"}.
C17_AwaitsJob ==
  \A r \in Reqs :
    inv[r].invokes > 0 =>
      /\ IsRunScoring(inv[r])
      /\ inv[r].payload = [mode |-> "inference_only"]
      /\ inv[r].job = "running" => inv[r].responses = 0 /\ ~IsDone(inv[r])
      /\ IsDone(inv[r]) => inv[r].job \in {"succeeded", "failed"}
      /\ inv[r].job = "succeeded" => Status(inv[r]) = 200
      /\ inv[r].job = "failed" => Status(inv[r]) = 500

\* one request was answered after its job succeeded while another's job runs
C17_Witness ==
  \E r1, r2 \in Reqs :
    /\ IsDone(inv[r1]) /\ inv[r1].job = "succeeded"
    /\ inv[r2].job = "running"

\* C18: with the bucket and the job configured and the job not failing, POST
\* /run-scoring invokes the job and is answered with success, whether or not
\* shop.db could be fetched and opened.
C18_TriggerIndependentOfStore ==
  \A r \in Reqs :
    IsRunScoring(inv[r]) /\ env.BUCKET /\ env.PIPELINE_LAMBDA_ARN
      /\ IsDone(inv[r]) /\ inv[r].job # "failed" =>
        /\ inv[r].invokes = 1
        /\ Status(inv[r]) = 200

\* a scoring run rs and a POST /orders rp that overlapped: each took its copy of
\* shop.db before the other stored; both were answered 200 and nothing was
\* stored after them
Overlapped(rs, rp) ==
  /\ IsRunScoring(inv[rs]) /\ inv[rs].job = "succeeded" /\ IsDone(inv[rs])
  /\ IsPostOrders(inv[rp]) /\ IsDone(inv[rp]) /\ Status(inv[rp]) = 200
  /\ inv[rs].jobReadVersion < inv[rp].wroteVersion
  /\ inv[rp].readVersion < inv[rs].jobWroteVersion
  /\ version \in {inv[rs].jobWroteVersion, inv[rp].wroteVersion}

HasPrediction(tables, orderId) ==
  \E k \in DOMAIN tables.order_predictions.rows :
    tables.order_predictions.rows[k].order_id = orderId

\* C19 as stated: after a scoring run and a POST /orders that overlapped have
\* both finished, shop.db holds the placed order and the predictions the job
\* wrote, so getPriorityQueue returns the job's predictions.
C19_ScoringKeepsConcurrentWrites ==
  \A rs, rp \in Reqs :
    Overlapped(rs, rp) =>
      /\ NewOrders(inv[rp]) \subseteq Range(Tables(durable).orders)
      /\ \A k \in DOMAIN inv[rs].jobdb.tables.orders :
           HasPrediction(Tables(durable), inv[rs].jobdb.tables.orders[k].order_id)
      /\ QueueOf(durable) = QueueRows(inv[rs].jobdb)

\* C19 amended: after a scoring run and a POST /orders that overlapped have both
\* finished, shop.db is the copy of whichever stored last: the POST's handle,
\* with the predictions it had fetched and not the job's, or the job's scored
\* copy, with the orders it had read; getPriorityQueue then returns the job's
\* predictions only when the job stored last.
C19_OverlapLastWriterWins ==
  \A rs, rp \in Reqs :
    Overlapped(rs, rp) =>
      /\ version = inv[rp].wroteVersion =>
           /\ Tables(durable) = inv[rp].db.tables
           /\ Tables(durable).order_predictions = Tables(inv[rp].buf).order_predictions
           /\ QueueOf(durable) = QueueOf(inv[rp].buf)
      /\ version = inv[rs].jobWroteVersion =>
           /\ Tables(durable) = inv[rs].jobdb.tables
           /\ Len(Tables(durable).orders) = Len(inv[rs].jobdb.tables.orders)
           /\ QueueOf(durable) = QueueRows(inv[rs].jobdb)

\* the POST stored last: shop.db has its order and none of the job's predictions
C19_Witness ==
  \E rs, rp \in Reqs :
    /\ Overlapped(rs, rp)
    /\ version = inv[rp].wroteVersion
    /\ NewOrders(inv[rp]) \subseteq Range(Tables(durable).orders)
    /\ ~Tables(durable).order_predictions.exists
    /\ QueueRows(inv[rs].jobdb) # <<>>

\* a step of the invocation failed: its GetObject, an insert, its PutObject or
\* the job
PersistFailed(i) == i.puts = 1 /\ i.wroteVersion = 0 /\ i.pc # "upload"
Failed(i) == FetchFailed(i) \/ i.threw \/ PersistFailed(i) \/ i.job = "failed"

\* C20: an invocation sends at most one GetObject, at most one PutObject and at
\* most one InvokeCommand, gives at most one response, and every failure of one
\* of its steps ends it with exactly one response, a 500.
C20_NoRetries ==
  \A r \in Reqs :
    /\ inv[r].gets <= 1 /\ inv[r].puts <= 1 /\ inv[r].invokes <= 1
    /\ inv[r].responses <= 1
    /\ IsDone(inv[r]) <=> inv[r].responses = 1
    /\ Failed(inv[r]) =>
         /\ inv[r].responses = 1
         /\ Status(inv[r]) = 500
         /\ inv[r].wroteVersion = 0 /\ inv[r].job # "succeeded"

\* one invocation's GetObject failed, and a later step of another one failed
C20_Witness ==
  /\ \E r \in Reqs : FetchFailed(inv[r])
  /\ \E r \in Reqs : PersistFailed(inv[r]) \/ inv[r].threw \/ inv[r].job = "failed"

(***************************************************************************)
(* The queries                                                             *)
(***************************************************************************)
Answered(i, method, path) ==
  IsDone(i) /\ i.event.method = method /\ i.event.path = path

ProbabilityOf(row) == row.late_delivery_probability

\* the predictions of a shop.db whose order and that order's customer exist
JoinablePredictions(buf) ==
  {p \in Range(RowsOf(buf, "order_predictions")) :
     \E o \in Range(RowsOf(buf, "orders")) :
       /\ o.order_id = p.order_id
       /\ \E c \in Range(RowsOf(buf, "customers")) : c.customer_id = o.customer_id}

Min(a, b) == IF a < b THEN a ELSE b

\* rows are the min(50, n) most probable of the joinable predictions J
IsTopOf(rows, J) ==
  /\ Len(rows) = Min(50, Cardinality(J))
  /\ \A k \in DOMAIN rows :
       \E p \in J : /\ p.order_id = rows[k].order_id
                    /\ ProbabilityOf(p) = ProbabilityOf(rows[k])
  /\ \A k, l \in DOMAIN rows : k < l =>
       /\ rows[k].order_id # rows[l].order_id
       /\ ~FGt(ProbabilityOf(rows[l]), ProbabilityOf(rows[k]))
  /\ \A p \in J :
       (\A k \in DOMAIN rows : rows[k].order_id # p.order_id) =>
         \A k \in DOMAIN rows : ~FGt(ProbabilityOf(p), ProbabilityOf(rows[k]))

\* C21: for every store, GET /priority-queue returns min(50, n) rows, n the
\* number of predictions whose order and that order's customer both exist;
\* the rows are in non-increasing order of probability and no joinable
\* prediction left out is more probable than a row returned.
C21_QueueIsTopFifty ==
  \A r \in Reqs :
    Answered(inv[r], "GET", "/priority-queue") =>
      /\ Status(inv[r]) = 200
      /\ IsTopOf(inv[r].response.body, JoinablePredictions(inv[r].buf))

\* a queue answered from a backlog of more than 50 joinable predictions
C21_Witness ==
  \E r \in Reqs :
    /\ Answered(inv[r], "GET", "/priority-queue")
    /\ Cardinality(JoinablePredictions(inv[r].buf)) > 50
    /\ Len(inv[r].response.body) = 50

One == Cents(100)

InUnitInterval(p) == ~FGt(FZero, p) /\ ~FGt(p, One)

C23_QueueWithoutPredictions ==
  \A r \in Reqs :
    /\ Answered(inv[r], "GET", "/priority-queue")
    /\ Acquired(inv[r])
    /\ ~HasTable(inv[r].buf, "order_predictions")
    => Status(inv[r]) = 200 /\ inv[r].response.body = <<>>

C23_Witness ==
  \E r \in Reqs :
    /\ Answered(inv[r], "GET", "/priority-queue")
    /\ Acquired(inv[r])
    /\ ~HasTable(inv[r].buf, "order_predictions")
    /\ RowsOf(inv[r].buf, "orders") # <<>>
    /\ RowsOf(inv[r].buf, "customers") # <<>>
    /\ Status(inv[r]) = 200

ActiveRows(rows) == {row \in Range(rows) : row.is_active = 1}

\* rows list exactly the customers A, once each, in ascending order of name
ListsCustomers(rows, A) ==
  /\ Len(rows) = Cardinality(A)
  /\ {row.customer_id : row \in A} = {rows[k].customer_id : k \in DOMAIN rows}
  /\ \A k \in DOMAIN rows :
       \E row \in A : row.customer_id = rows[k].customer_id
                      /\ row.full_name = rows[k].full_name
  /\ \A k, l \in DOMAIN rows : k < l => ~TextLess(rows[l].full_name, rows[k].full_name)

ListsProducts(rows, A) ==
  /\ Len(rows) = Cardinality(A)
  /\ {row.product_id : row \in A} = {rows[k].product_id : k \in DOMAIN rows}
  /\ \A k \in DOMAIN rows :
       \E row \in A : row.product_id = rows[k].product_id
                      /\ row.product_name = rows[k].product_name
  /\ \A k, l \in DOMAIN rows : k < l =>
       ~TextLess(rows[l].product_name, rows[k].product_name)

\* C24: GET /customers returns exactly the customers whose is_active is 1 in
\* ascending order of full_name, and GET /products exactly the active
\* products in ascending order of product_name: no inactive row is returned
\* and no active row is left out.
C24_ListsActiveRowsByName ==
  \A r \in Reqs :
    /\ Answered(inv[r], "GET", "/customers") =>
         /\ Status(inv[r]) = 200
         /\ ListsCustomers(inv[r].response.body, ActiveRows(RowsOf(inv[r].buf, "customers")))
    /\ Answered(inv[r], "GET", "/products") =>
         /\ Status(inv[r]) = 200
         /\ ListsProducts(inv[r].response.body, ActiveRows(RowsOf(inv[r].buf, "products")))

\* a list of several active customers, returned in another order than they
\* are stored in, from a store that also has an inactive customer
C24_Witness ==
  \E r \in Reqs :
    /\ Answered(inv[r], "GET", "/customers")
    /\ \E row \in Range(RowsOf(inv[r].buf, "customers")) : row.is_active = 0
    /\ \E k, l \in DOMAIN inv[r].response.body :
         k < l /\ inv[r].response.body[k].customer_id > inv[r].response.body[l].customer_id

OrdersOwnedBy(rows, customerId) == {o \in Range(rows) : o.customer_id = customerId}

\* rows list exactly the orders O, once each, latest first
ListsOrders(rows, O) ==
  /\ Len(rows) = Cardinality(O)
  /\ {o.order_id : o \in O} = {rows[k].order_id : k \in DOMAIN rows}
  /\ \A k \in DOMAIN rows :
       \E o \in O : /\ o.order_id = rows[k].order_id
                    /\ o.order_datetime = rows[k].order_datetime
                    /\ o.order_total = rows[k].order_total
                    /\ o.order_subtotal = rows[k].order_subtotal
  /\ \A k, l \in DOMAIN rows : k < l => rows[k].order_datetime >= rows[l].order_datetime

\* C25: GET /orders for a customer id returns exactly the orders whose
\* customer_id is that id, all of them and no order of another customer, in
\* non-increasing order of order_datetime.
C25_ListsOrdersOfCustomer ==
  \A r \in Reqs :
    /\ Answered(inv[r], "GET", "/orders")
    /\ Acquired(inv[r])
    /\ inv[r].event.customerId # <<>>
    /\ parseInt(inv[r].event.customerId) # NaN
    => /\ Status(inv[r]) = 200
       /\ ListsOrders(inv[r].response.body,
                      OrdersOwnedBy(RowsOf(inv[r].buf, "orders"),
                                    parseInt(inv[r].event.customerId)[1]))

\* several orders of the customer, created at different times, returned from
\* a store that also holds an order of another customer
C25_Witness ==
  \E r \in Reqs :
    /\ Answered(inv[r], "GET", "/orders")
    /\ Status(inv[r]) = 200
    /\ Len(inv[r].response.body) < Len(RowsOf(inv[r].buf, "orders"))
    /\ \E k, l \in DOMAIN inv[r].response.body :
         /\ inv[r].response.body[k].order_datetime > inv[r].response.body[l].order_datetime
         /\ inv[r].response.body[k].order_id > inv[r].response.body[l].order_id

IsNumeric(s) == s # <<>> /\ \A k \in DOMAIN s : IsDigit(s[k])

\* C26: GET /orders is answered 400 whenever customerId is absent or is not
\* numeric; a customerId that is not numeric never gets a 200.
C26_NonNumericCustomerIdIs400 ==
  \A r \in Reqs :
    /\ Answered(inv[r], "GET", "/orders")
    /\ Acquired(inv[r])
    /\ ~IsNumeric(inv[r].event.customerId)
    => Status(inv[r]) = 400

(***************************************************************************)
(* The responses                                                           *)
(***************************************************************************)
HasHeader(response, name, value) ==
  name \in DOMAIN response.headers /\ response.headers[name] = value

AllowsOrigin(i) ==
  HasHeader(i.response, "Access-Control-Allow-Origin",
            IF i.event.origin = Undefined THEN "*" ELSE i.event.origin[1])

IsJsonResponse(i) ==
  HasHeader(i.response, "Content-Type", "application/json") /\ i.response.json

\* C27: every response carries Access-Control-Allow-Origin equal to the
\* request's origin, or '*' when none was sent; every response to a method
\* other than OPTIONS has Content-Type application/json and a JSON body; a
\* response to OPTIONS is 204 with an empty body.
C27_CorsAndJsonOnEveryResponse ==
  \A r \in Reqs :
    IsDone(inv[r]) =>
      /\ AllowsOrigin(inv[r])
      /\ inv[r].event.method # "OPTIONS" => IsJsonResponse(inv[r])
      /\ inv[r].event.method = "OPTIONS" =>
           Status(inv[r]) = 204 /\ inv[r].response.body = ""

(***************************************************************************)
(* The rows of an order                                                    *)
(***************************************************************************)
ItemsOf(tables, orderId) ==
  LET Of(item) == item.order_id = orderId
  IN  SelectSeq(tables.order_items, Of)

\* the sum of the line totals, added up in rowid order
RECURSIVE SumLineTotals(_)
SumLineTotals(items) ==
  IF items = <<>> THEN FZero
  ELSE FAdd(SumLineTotals(SubSeq(items, 1, Len(items) - 1)), items[Len(items)].line_total)

RowsAddUp(order, items) ==
  /\ \A k \in DOMAIN items :
       items[k].line_total = FMul(FromInt(items[k].quantity), items[k].unit_price)
  /\ order.order_subtotal = SumLineTotals(items)

\* C28: every order_items row postOrder creates has line_total = quantity *
\* unit_price, and the order_subtotal of the order row equals the sum of the
\* line_total values of its items (in the doubles the store holds).
C28_LineTotalsAddUp ==
  \A r \in Reqs :
    IsPostOrders(inv[r]) /\ inv[r].committed =>
      \A order \in NewOrders(inv[r]) :
        RowsAddUp(order, ItemsOf(inv[r].db.tables, order.order_id))

\* an order of two lines, one of them of several units
C28_Witness ==
  \E r \in Reqs :
    /\ IsPostOrders(inv[r]) /\ inv[r].committed
    /\ \E order \in NewOrders(inv[r]) :
         /\ Len(ItemsOf(inv[r].db.tables, order.order_id)) = 2
         /\ \E item \in Range(ItemsOf(inv[r].db.tables, order.order_id)) : item.quantity > 1

(***************************************************************************)
(* The handle                                                              *)
(***************************************************************************)
\* the invocation fetched shop.db and opened a Database on it
Opened(i) == i.gets > 0 /\ i.buf # NoBuf

\* C29: every request that opens a handle closes it exactly once before its
\* response, on every path; no response is produced while the handle is open.
C29_HandleClosedOnce ==
  \A r \in Reqs :
    /\ inv[r].closes <= 1
    /\ Opened(inv[r]) /\ IsDone(inv[r]) => inv[r].closes = 1 /\ ~inv[r].db.open

IsPrefix(s, t) == Len(s) <= Len(t) /\ SubSeq(t, 1, Len(s)) = s

\* after holds every row of before unchanged, and besides them one order row
\* and item rows of that order only
AddsOneOrder(before, after) ==
  /\ after.customers = before.customers
  /\ after.products = before.products
  /\ after.order_predictions = before.order_predictions
  /\ IsPrefix(before.orders, after.orders)
  /\ Len(after.orders) = Len(before.orders) + 1
  /\ IsPrefix(before.order_items, after.order_items)
  /\ \A k \in DOMAIN after.order_items :
       k > Len(before.order_items) =>
         after.order_items[k].order_id = after.orders[Len(after.orders)].order_id

\* C30: a postOrder that succeeds changes the handle only by adding one order
\* row and its item rows: every customer, product and prediction row and
\* every order and order_items row the handle held before is there
\* afterwards with the same fields.
C30_PostOrderOnlyAdds ==
  \A r \in Reqs :
    IsPostOrders(inv[r]) /\ inv[r].committed =>
      AddsOneOrder(Tables(inv[r].buf), inv[r].db.tables)

\* an order placed on a store that already holds orders, items and predictions
C30_Witness ==
  \E r \in Reqs :
    /\ IsPostOrders(inv[r]) /\ inv[r].committed
    /\ RowsOf(inv[r].buf, "order_predictions") # <<>>
    /\ RowsOf(inv[r].buf, "orders") # <<>>
    /\ RowsOf(inv[r].buf, "order_items") # <<>>
    /\ Len(inv[r].db.tables.order_items) > Len(RowsOf(inv[r].buf, "order_items")) + 1

(***************************************************************************)
(* Order identities                                                        *)
(***************************************************************************)
\* a POST /orders that was answered with success
Placed(i) == IsPostOrders(i) /\ IsDone(i) /\ Status(i) = 200

OrderIds(rows) == {rows[k].order_id : k \in DOMAIN rows}

ReturnedId(i) == i.response.body.orderId

\* C31 as stated: distinct POST /orders that are answered with success return
\* distinct order ids, none of them an id of an order in the shop.db the
\* request fetched, also when two requests fetch the same shop.db.
C31_DistinctOrderIds ==
  /\ \A r \in Reqs :
       Placed(inv[r]) => ReturnedId(inv[r]) \notin OrderIds(RowsOf(inv[r].buf, "orders"))
  /\ \A r1, r2 \in Reqs :
       r1 # r2 /\ Placed(inv[r1]) /\ Placed(inv[r2]) =>
         ReturnedId(inv[r1]) # ReturnedId(inv[r2])

\* C31: the id a successful POST /orders returns is never an id of an order
\* in the shop.db it fetched, so two successful requests return distinct ids
\* when one fetched a shop.db that holds the other's order; two requests that
\* fetched the same shop.db return the same id.
C31_FreshInOwnSnapshot ==
  /\ \A r \in Reqs :
       Placed(inv[r]) => ReturnedId(inv[r]) \notin OrderIds(RowsOf(inv[r].buf, "orders"))
  /\ \A r1, r2 \in Reqs :
       r1 # r2 /\ Placed(inv[r1]) /\ Placed(inv[r2]) =>
         /\ ReturnedId(inv[r1]) \in OrderIds(RowsOf(inv[r2].buf, "orders")) =>
              ReturnedId(inv[r1]) # ReturnedId(inv[r2])
         /\ inv[r1].buf = inv[r2].buf => ReturnedId(inv[r1]) = ReturnedId(inv[r2])

\* two requests placed different orders from the same shop.db
C31_Witness ==
  \E r1, r2 \in Reqs :
    /\ r1 # r2 /\ Placed(inv[r1]) /\ Placed(inv[r2])
    /\ inv[r1].buf = inv[r2].buf
    /\ inv[r1].event.body # inv[r2].event.body

(***************************************************************************)
(* Sequential use                                                          *)
(***************************************************************************)
\* the orders of shop.db as it was deployed
InitialOrders == IF durable.format = SqliteFormat THEN SeedOrders ELSE <<>>

\* what a GET /orders for the customer returns from shop.db as it is now
ListedNow(customerId) == getOrders(Database(durable), Some(customerId))

Lists(rows, orderId) == \E k \in DOMAIN rows : rows[k].order_id = orderId

\* invocation q is a GET /orders for the customer of the order r placed,
\* answered from a shop.db fetched after r stored its own
ListsAfter(q, r) ==
  /\ Answered(inv[q], "GET", "/orders") /\ Status(inv[q]) = 200
  /\ inv[q].readVersion >= inv[r].wroteVersion
  /\ parseInt(inv[q].event.customerId) = inv[r].event.body.customerId

\* C32: when requests do not overlap, no update is lost: after k successful
\* POST /orders shop.db holds the initial orders and exactly k new ones, and
\* every order reported as placed is returned by a later GET /orders for its
\* customer.
C32_NoLostUpdateInSequence ==
  /\ IsPrefix(InitialOrders, RowsOf(durable, "orders"))
  /\ Len(RowsOf(durable, "orders")) =
       Len(InitialOrders) + Cardinality({r \in Reqs : Placed(inv[r])})
  /\ \A r \in Reqs :
       Placed(inv[r]) =>
         /\ Lists(ListedNow(inv[r].event.body.customerId[1]), ReturnedId(inv[r]))
         /\ \A q \in Reqs :
              ListsAfter(q, r) => Lists(inv[q].response.body, ReturnedId(inv[r]))

\* two orders placed one after the other
C32_Witness ==
  \E r1, r2 \in Reqs :
    /\ r1 # r2 /\ Placed(inv[r1]) /\ Placed(inv[r2])
    /\ ReturnedId(inv[r1]) # ReturnedId(inv[r2])

\* an order placed and then listed by a GET /orders for its customer
C32_Listed ==
  \E q, r \in Reqs : Placed(inv[r]) /\ ListsAfter(q, r)

(***************************************************************************)
(* Invalid input and unmatched routes                                      *)
(***************************************************************************)
\* GET /orders without customerId, or POST /orders with an empty items array
HasInvalidInput(i) ==
  \/ i.event.method = "GET" /\ i.event.path = "/orders" /\ i.event.customerId = <<>>
  \/ /\ IsPostOrders(i) /\ HasItemArray(i)
     /\ i.event.body.items.elems = <<>>

\* C33: a request with invalid input is answered 400 whatever the state of
\* shop.db, also when the object cannot be fetched or is no database.
C33_InvalidInputIs400 ==
  \A r \in Reqs :
    IsDone(inv[r]) /\ inv[r].gets > 0 /\ HasInvalidInput(inv[r]) => Status(inv[r]) = 400

Routes ==
  {<<"GET", "/customers">>, <<"GET", "/products">>, <<"GET", "/orders">>,
   <<"POST", "/orders">>, <<"GET", "/priority-queue">>, <<"POST", "/run-scoring">>}

IsUnmatched(i) ==
  i.event.method \notin {"", "OPTIONS"} /\ <<i.event.method, i.event.path>> \notin Routes

\* C34: a request other than OPTIONS whose method and path match none of the
\* six routes is answered 404 with a JSON error body and writes nothing; it is
\* never answered 200.
C34_UnmatchedIs404 ==
  \A r \in Reqs :
    IsDone(inv[r]) /\ IsUnmatched(inv[r]) =>
      /\ Status(inv[r]) # 200
      /\ inv[r].puts = 0
      /\ Opened(inv[r]) =>
           /\ Status(inv[r]) = 404
           /\ inv[r].response.json
           /\ inv[r].response.body.error = "Not found"

\* the requests of one kind that the Place Order page awaits
Awaited(kind) == {k \in DOMAIN page.fetches : page.fetches[k].kind = kind}

\* the order that the invocation's response names, as shop.db holds it
StoredOrder(i) ==
  LET O == RowsOf(durable, "orders")
  IN  O[CHOOSE k \in DOMAIN O : O[k].order_id = ReturnedId(i)]

\* the page's numbers and the strings it printed from them against the row
SameAmounts(f, row) ==
  LET a == CartAmounts(f.lineItems)
  IN  /\ row.order_subtotal = a.subtotal
      /\ row.shipping_fee = a.shippingFee
      /\ row.tax_amount = a.taxAmount
      /\ row.order_total = a.total
      /\ ToFixed2(row.order_subtotal) = f.shown.subtotal
      /\ ToFixed2(row.shipping_fee) = f.shown.shippingFee
      /\ ToFixed2(row.tax_amount) = f.shown.taxAmount
      /\ ToFixed2(row.order_total) = f.shown.total

\* the page's submission k was answered with success
SubmissionPlaced(k) ==
  /\ page.fetches[k].slot # 0
  /\ Placed(inv[page.fetches[k].slot])

\* C36: for every cart of the Place Order page, the subtotal, shipping fee,
\* tax and total the page computes and prints when the cart is submitted are
\* the order_subtotal, shipping_fee, tax_amount and order_total of the order
\* the API stores for that submission.
C36_PageAmountsAreStored ==
  \A k \in Awaited("orders") :
    SubmissionPlaced(k) => SameAmounts(page.fetches[k], StoredOrder(inv[page.fetches[k].slot]))

\* a cart of two products over 100.00 was submitted and stored: shipping is
\* free on the page and in the row
C36_Witness ==
  \E k \in Awaited("orders") :
    /\ SubmissionPlaced(k)
    /\ Len(page.fetches[k].lineItems) = 2
    /\ page.fetches[k].shown.shippingFee = 0
    /\ StoredOrder(inv[page.fetches[k].slot]).shipping_fee = FZero

\* a cart that is charged shipping was submitted and stored
C36_Charged ==
  \E k \in Awaited("orders") :
    /\ SubmissionPlaced(k)
    /\ page.fetches[k].shown.shippingFee = 999

\* the POST /orders requests that invocations of the handler have received
PostsReceived == {r \in Reqs : inv[r].pc # "idle" /\ IsPostOrders(inv[r])}

\* a submission carries a customer and at least one item
WellFormedSubmission(f) == page.customer # Undefined /\ Len(f.lineItems) > 0

SubmissionState ==
  /\ Cardinality(Awaited("orders")) <= 1
  /\ page.submitting <=> Awaited("orders") # {}
  /\ \A k \in Awaited("orders") : WellFormedSubmission(page.fetches[k])
  /\ \A r \in PostsReceived :
       /\ inv[r].event.body.customerId # Undefined
       /\ Len(inv[r].event.body.items.elems) > 0

\* a step in which the page sends a POST /orders
SubmissionStarts == Cardinality(Awaited("orders"))' > Cardinality(Awaited("orders"))

\* a step in which a POST /orders of the page settles, by its response or by
\* the failure of the fetch
SubmissionEnds == Cardinality(Awaited("orders"))' < Cardinality(Awaited("orders"))

\* C37: on the Place Order page at most one POST /orders is in flight; the
\* submitting flag is true exactly from the start of a submission to its
\* response or failure; no submission starts while it is true; it is false
\* again after a success and after a failure; and no submission is sent
\* without a customer or with an empty cart.
C37_OneSubmissionAtATime ==
  /\ []SubmissionState
  /\ [][/\ SubmissionStarts => ~page.submitting /\ page'.submitting
        /\ SubmissionEnds => page.submitting /\ ~page'.submitting]_vars

\* a submission failed and was followed by one that succeeded: the flag is
\* false after both, and nothing is in flight
C37_Witness ==
  /\ page.alerted
  /\ page.pushed
  /\ ~page.submitting
  /\ Awaited("orders") = {}

\* a submission is in flight after an earlier one failed, and the cart has
\* been emptied meanwhile
C37_InFlight ==
  /\ page.alerted
  /\ page.submitting
  /\ Awaited("orders") # {}
  /\ page.lineItems = <<>>

\* a step in which the Priority Queue page issues a GET /priority-queue
QueueFetchStarts ==
  Cardinality(QueueAwaited("queue"))' > Cardinality(QueueAwaited("queue"))

\* a step in which the page's POST /run-scoring settles
ScoringEnds ==
  Cardinality(QueueAwaited("scoring"))' < Cardinality(QueueAwaited("scoring"))

\* the POST /run-scoring the page awaits has been answered with success
ScoringSucceeded == \E k \in QueueAwaited("scoring") : Ok(queue.fetches[k])

\* the queue is fetched when the page is opened and when a scoring request
\* settles with success, and at no other step
RefetchOnlyAfterSuccess ==
  /\ QueueFetchStarts => ~queue.open \/ (ScoringEnds /\ ScoringSucceeded)
  /\ ScoringEnds /\ ScoringSucceeded => QueueFetchStarts
  /\ ScoringEnds /\ ~ScoringSucceeded => ~QueueFetchStarts

\* the scoring flag is true exactly while a scoring request is awaited
ScoringFlag == queue.scoring <=> QueueAwaited("scoring") # {}

\* every request of the page has settled, none of them failed, and scoring
\* has completed at least once
AllSettled ==
  queue.open /\ queue.fetches = <<>> /\ ~queue.failed /\ queue.completed > 0

\* the rows displayed came with a fetch issued after the last scoring completed
ShowsScored == queue.shownAfter = queue.completed

\* C38 (refetch): the queue is re-fetched after a scoring request succeeds and
\* only then, never after a failed one, and the scoring flag is false again
\* after both outcomes.
C38_RefetchAfterSuccess == []ScoringFlag /\ [][RefetchOnlyAfterSuccess]_vars

\* C38: the queue is re-fetched after a successful scoring request and only
\* then, the scoring flag returns to false after both outcomes, and once all
\* requests have settled the rows displayed are those of a fetch issued after
\* scoring completed, not those of an earlier fetch that was answered late.
C38_ShowsRowsOfLastFetch ==
  /\ []ScoringFlag
  /\ [][RefetchOnlyAfterSuccess]_vars
  /\ [](AllSettled => ShowsScored)

\* scoring succeeded once, every request has settled without a failure, and
\* the page shows the rows of the fetch it issued when it was opened: no rows
C38_ShowsStaleRows ==
  /\ AllSettled
  /\ queue.completed = 1
  /\ queue.shownAfter = 0
  /\ queue.rows = <<>>
  /\ RowsOf(durable, "order_predictions") # <<>>

\* scoring failed: the alert was raised, the flag is false, nothing is awaited
C38_AfterFailure ==
  /\ queue.open
  /\ queue.alerted
  /\ ~queue.scoring
  /\ queue.fetches = <<>>

\* the handler's invocation failed on S3: a fault the dev server has no part in
S3Failed(i) ==
  /\ IsDone(i)
  /\ Status(i) = 500
  /\ i.response.body.error \in {"GetObject failed", "PutObject failed"}

NoS3Failure == \A r \in Reqs : ~S3Failed(inv[r])

\* the keys JSON.stringify writes for an error object: a key whose value is
\* undefined is left out
WrittenKeys(body) ==
  {k \in DOMAIN body : k = "stderr" => body[k] # Undefined}

JsonOf(body) == [k \in WrittenKeys(body) |-> body[k]]

\* the same status code and the same body text
SameAnswer(lambda, local) ==
  /\ lambda.statusCode = local.statusCode
  /\ IF lambda.statusCode \in {400, 404, 500}
     THEN JsonOf(lambda.body) = JsonOf(local.body)
     ELSE lambda.body = local.body

\* the same customers, products, orders, order items and predictions
SameStore(a, b) ==
  /\ RowsOf(a, "customers") = RowsOf(b, "customers")
  /\ RowsOf(a, "products") = RowsOf(b, "products")
  /\ RowsOf(a, "orders") = RowsOf(b, "orders")
  /\ RowsOf(a, "order_items") = RowsOf(b, "order_items")
  /\ RowsOf(a, "order_predictions") = RowsOf(b, "order_predictions")

\* both programs have answered every request sent so far
BothAnswered == \A r \in Reqs : ~Busy(inv[r]) /\ (inv[r].pc = "done" => dev.served[r])

\* C35: started from the same shop.db and given the same requests on the six
\* routes one after the other, the dev server and the Lambda handler give the
\* same status code and body for each request and end with the same rows in
\* customers, products, orders, order_items and order_predictions (runs in
\* which S3 fails the handler are left aside).
C35_DevServerEquivalent ==
  NoS3Failure =>
    /\ \A r \in Reqs : dev.served[r] => SameAnswer(inv[r].response, dev.responses[r])
    /\ BothAnswered => SameStore(durable, dev.file)

\* the scoring job failed for both: the handler answers 500 with the job's
\* errorMessage and no stderr, the server 500 with "Scoring job failed" and
\* the job's stderr; the stores are the same
C35_ScoringFailureDiffers ==
  \E r \in Reqs :
    /\ dev.served[r]
    /\ Answered(inv[r], "POST", "/run-scoring")
    /\ inv[r].job = "failed"
    /\ Status(inv[r]) = 500 /\ dev.responses[r].statusCode = 500
    /\ JsonOf(inv[r].response.body) # JsonOf(dev.responses[r].body)
    /\ SameStore(durable, dev.file)

\* an order for a product that has no row: the handler stores it and answers
\* 200, the server answers 500 and stores nothing
C35_DanglingOrderDiffers ==
  \E r \in Reqs :
    /\ dev.served[r]
    /\ Answered(inv[r], "POST", "/orders")
    /\ Status(inv[r]) = 200 /\ dev.responses[r].statusCode = 500
    /\ ~SameStore(durable, dev.file)

\* the requests of one route, with every job succeeding, that both answer alike
SameOn(method, path) ==
  NoS3Failure =>
    \A r \in Reqs :
      dev.served[r] /\ Answered(inv[r], method, path) /\ inv[r].job # "failed"
        => SameAnswer(inv[r].response, dev.responses[r])

====
